---- MODULE Spec2Model ----
(***************************************************************************)
(* Model of the user CRUD service: the validator (internal/validator),     *)
(* the age calculation and UserService (internal/service), the HTTP        *)
(* handlers (internal/handler) and the in-memory repository                *)
(* (internal/test/mock_repository.go).                                     *)
(*                                                                         *)
(* A time.Time is an integer number of hours since 1970-01-01T00:00Z; the  *)
(* server's time.Local is a fixed offset in hours (loc).  A request's dob  *)
(* is a sequence of one-character strings, a name is a string.             *)
(***************************************************************************)
EXTENDS Integers, Sequences, FiniteSets, TLC

-----------------------------------------------------------------------------
(* Bounds of the model *)

\* number of records the repository may create in one behaviour
MaxUsers == 2
\* number of 4-hour steps the clock may take
MaxTicks == 1
\* number of 365-day steps the clock may take
MaxYears == 1
\* number of records created in a behaviour that follows the clock
MaxTimedUsers == 1
\* number of goroutines that call the repository at the same time
MaxProcs == 2
\* number of calls each of them makes
MaxCalls == 2

-----------------------------------------------------------------------------
(* package time: the proleptic Gregorian calendar behind Year(), Month(),  *)
(* Day(), time.Parse and Format                                            *)

IsLeap(y) == (y % 4 = 0 /\ y % 100 # 0) \/ y % 400 = 0

DaysIn(m, y) ==
    IF m = 2 THEN (IF IsLeap(y) THEN 29 ELSE 28)
    ELSE IF m \in {4, 6, 9, 11} THEN 30 ELSE 31

\* days since 1970-01-01 of the civil date y-m-d
DaysFromCivil(y, m, d) ==
    LET yy  == IF m <= 2 THEN y - 1 ELSE y
        era == yy \div 400
        yoe == yy - era * 400
        mp  == IF m > 2 THEN m - 3 ELSE m + 9
        doy == (153 * mp + 2) \div 5 + d - 1
        doe == yoe * 365 + yoe \div 4 - yoe \div 100 + doy
    IN  era * 146097 + doe - 719468

\* the civil date of day number z (days since 1970-01-01), computed in
\* steps: the era of 400 years, the day of the era, the year of the era, the
\* day of the year counted from March 1, the month counted from March
CivilOfYear(y, m, d) ==
    [year |-> IF m <= 2 THEN y + 1 ELSE y, month |-> m, day |-> d]

CivilOfMp(era, yoe, doy, mp) ==
    CivilOfYear(yoe + era * 400,
                IF mp < 10 THEN mp + 3 ELSE mp - 9,
                doy - (153 * mp + 2) \div 5 + 1)

CivilOfDoy(era, yoe, doy) == CivilOfMp(era, yoe, doy, (5 * doy + 2) \div 153)

CivilOfYoe(era, doe, yoe) ==
    CivilOfDoy(era, yoe, doe - (365 * yoe + yoe \div 4 - yoe \div 100))

CivilOfDoe(era, doe) ==
    CivilOfYoe(era, doe,
               (doe - doe \div 1460 + doe \div 36524 - doe \div 146096) \div 365)

CivilOfEra(zz, era) == CivilOfDoe(era, zz - era * 146097)

CivilFromDays(z) == CivilOfEra(z + 719468, (z + 719468) \div 146097)

\* time.Date(y, m, d, h, 0, 0, 0, time.UTC)
Date(y, m, d, h) == DaysFromCivil(y, m, d) * 24 + h

\* t.Year(), t.Month(), t.Day() of an instant t shown in the zone off hours
\* east of UTC
Civil(t, off) == CivilFromDays((t + off) \div 24)

\* A time.Time that keeps its zone is a record of its instant t and of the
\* offset loc of its zone.
\* time.Now(): the instant t in the zone off hours east of UTC
TimeNow(t, off) == [t |-> t, loc |-> off]

\* time.Date(y, m, d, h, 0, 0, 0, l) for a zone l that is off hours east of
\* UTC: a month outside 1..12 and a day outside the month carry over
TimeDate(y, m, d, h, off) ==
    LET yy == y + (m - 1) \div 12
        mm == ((m - 1) % 12) + 1
    IN  [t |-> (DaysFromCivil(yy, mm, 1) + d - 1) * 24 + h - off, loc |-> off]

\* tm.AddDate(years, months, days): the date and the clock of tm in its own
\* zone, the amounts added, and the result normalised as by time.Date
AddDate(tm, years, months, days) ==
    LET c == Civil(tm.t, tm.loc)
        h == (tm.t + tm.loc) % 24
    IN  TimeDate(c.year + years, c.month + months, c.day + days, h, tm.loc)

-----------------------------------------------------------------------------
(* Text: decimal digits, strconv and the "2006-01-02" layout *)

Digits == <<"0", "1", "2", "3", "4", "5", "6", "7", "8", "9">>

DigitValues == [c \in {Digits[i] : i \in 1..10} |-> (CHOOSE i \in 1..10 : Digits[i] = c) - 1]

IsDigit(c) == c \in DOMAIN DigitValues

DigitVal(c) == DigitValues[c]

\* the value of a non-empty sequence of digits
RECURSIVE Atoi(_)
Atoi(s) ==
    IF Len(s) = 0 THEN 0
    ELSE 10 * Atoi(SubSeq(s, 1, Len(s) - 1)) + DigitVal(s[Len(s)])

\* the decimal digits of n >= 0, zero-padded to at least w characters
RECURSIVE Pad(_, _)
Pad(n, w) ==
    IF n < 10 /\ w <= 1 THEN <<Digits[n + 1]>>
    ELSE Pad(n \div 10, w - 1) \o <<Digits[(n % 10) + 1]>>

\* strconv.ParseInt(s, 10, 32) for the unsigned decimal strings the model
\* sends: ok is FALSE for an empty or non-numeric parameter
ParseInt(s) ==
    IF Len(s) = 0 \/ \E i \in 1..Len(s) : ~IsDigit(s[i])
    THEN [ok |-> FALSE, n |-> 0]
    ELSE [ok |-> TRUE, n |-> Atoi(s)]

\* time.Time{}: January 1, year 1, 00:00 UTC
ZeroTime == Date(1, 1, 1, 0)

\* time.Parse("2006-01-02", s): four digits, '-', two digits, '-', two
\* digits and nothing else; the month in 1..12 and the day within the month
ParseDate(s) ==
    IF \/ Len(s) # 10
       \/ \E i \in {1, 2, 3, 4, 6, 7, 9, 10} : ~IsDigit(s[i])
       \/ s[5] # "-"
       \/ s[8] # "-"
    THEN [ok |-> FALSE, t |-> ZeroTime]
    ELSE LET y == Atoi(SubSeq(s, 1, 4))
             m == Atoi(SubSeq(s, 6, 7))
             d == Atoi(SubSeq(s, 9, 10))
         IN  IF m < 1 \/ m > 12 \/ d < 1 \/ d > DaysIn(m, y)
             THEN [ok |-> FALSE, t |-> ZeroTime]
             ELSE [ok |-> TRUE, t |-> Date(y, m, d, 0)]

\* t.Format("2006-01-02") of a UTC time
FormatDate(t) ==
    LET c == Civil(t, 0)
    IN  Pad(c.year, 4) \o <<"-">> \o Pad(c.month, 2) \o <<"-">> \o Pad(c.day, 2)

\* strings.Join(msgs, sep)
RECURSIVE Join(_, _)
Join(msgs, sep) ==
    IF Len(msgs) = 0 THEN ""
    ELSE IF Len(msgs) = 1 THEN msgs[1]
    ELSE msgs[1] \o sep \o Join(Tail(msgs), sep)

\* the string of n copies of c
RECURSIVE Repeat(_, _)
Repeat(c, n) ==
    IF n = 0 THEN ""
    ELSE IF n % 2 = 1 THEN c \o Repeat(c, n - 1)
    ELSE LET half == Repeat(c, n \div 2) IN half \o half

-----------------------------------------------------------------------------
(* package validator: the rules of CreateUserRequest / UpdateUserRequest   *)

\* validate:"required,min=1,max=255"
NameMin == 1
NameMax == 255

NameTags == <<[tag |-> "required", param |-> ""],
              [tag |-> "min", param |-> ToString(NameMin)],
              [tag |-> "max", param |-> ToString(NameMax)]>>

\* validate:"required,dateformat,notfuture"
\* mutant of DOBTags: validate:"required" alone
DOBTagsRequiredOnly == <<[tag |-> "required", param |-> ""]>>

DOBTags == <<[tag |-> "required", param |-> ""],
             [tag |-> "dateformat", param |-> ""],
             [tag |-> "notfuture", param |-> ""]>>

validateDateFormat(dateStr) == ParseDate(dateStr).ok

\* mutant of validateNotFuture: !dob.After(time.Now())
validateNotFutureInclusive(dateStr, now) ==
    LET dob == ParseDate(dateStr)
    IN  IF ~dob.ok THEN FALSE ELSE dob.t <= now

\* dob.Before(time.Now()): a comparison of instants
validateNotFuture(dateStr, now) ==
    LET dob == ParseDate(dateStr)
    IN  IF ~dob.ok THEN FALSE ELSE dob.t < now

\* mutant of TagHolds: max compares with < instead of <=
TagHoldsMaxExclusive(tag, value, now) ==
    CASE tag = "required"   -> Len(value) # 0
      [] tag = "min"        -> Len(value) >= NameMin
      [] tag = "max"        -> Len(value) < NameMax
      [] tag = "dateformat" -> ParseDate(value).ok
      [] tag = "notfuture"  -> ParseDate(value).ok /\ ParseDate(value).t < now
      [] OTHER              -> FALSE

\* one tag of a field: required (not the zero value), min and max (length in
\* characters), and the two registered rules
TagHolds(tag, value, now) ==
    CASE tag = "required"   -> Len(value) # 0
      [] tag = "min"        -> Len(value) >= NameMin
      [] tag = "max"        -> Len(value) <= NameMax
      [] tag = "dateformat" -> validateDateFormat(value)
      [] tag = "notfuture"  -> validateNotFuture(value, now)
      [] OTHER              -> FALSE

getErrorMessage(field, fe) ==
    CASE fe.tag = "required"   -> field \o " is required"
      [] fe.tag = "min"        -> field \o " must be at least " \o fe.param \o " characters"
      [] fe.tag = "max"        -> field \o " must be at most " \o fe.param \o " characters"
      [] fe.tag = "dateformat" -> field \o " must be in YYYY-MM-DD format"
      [] fe.tag = "notfuture"  -> field \o " cannot be in the future"
      [] OTHER                 -> field \o " is invalid"

\* validate.Struct on one field: the tags run in order and the first one
\* that fails is the field's one error
RECURSIVE FieldErrors(_, _, _, _)
FieldErrors(field, value, tags, now) ==
    IF Len(tags) = 0 THEN <<>>
    ELSE IF ~TagHolds(tags[1].tag, value, now)
         THEN <<getErrorMessage(field, tags[1])>>
         ELSE FieldErrors(field, value, Tail(tags), now)

\* mutant of ValidationMessages: the errors of DOB come before those of Name
ValidationMessagesDobFirst(req, now) ==
    FieldErrors("DOB", req.DOB, DOBTags, now)
        \o FieldErrors("Name", req.Name, NameTags, now)

\* the messages formatValidationErrors collects, fields in declaration order
ValidationMessages(req, now) ==
    FieldErrors("Name", req.Name, NameTags, now)
        \o FieldErrors("DOB", req.DOB, DOBTags, now)

formatValidationErrors(msgs) == Join(msgs, "; ")

\* a nil error
Nil == "<nil>"

\* ValidateStruct: nil, or one error whose text joins the messages
ValidateStruct(req, now) ==
    LET msgs == ValidationMessages(req, now)
    IN  IF Len(msgs) = 0 THEN Nil ELSE formatValidationErrors(msgs)

-----------------------------------------------------------------------------
(* internal/test/mock_repository.go: the in-memory repository.  Its state  *)
(* is m = [users, nextID, shouldFail]; every method returns the new state  *)
(* with its results.                                                       *)

ErrMock == "mock database error"
ErrNotFound == "user not found"

\* database.User{}
ZeroUser == [ID |-> 0, Name |-> "", Dob |-> ZeroTime]

NewMockUserRepository == [users |-> <<>>, nextID |-> 1, shouldFail |-> FALSE]

RepoGetUser(m, id) ==
    IF m.shouldFail THEN [m |-> m, user |-> ZeroUser, err |-> ErrMock]
    ELSE IF id \notin DOMAIN m.users
         THEN [m |-> m, user |-> ZeroUser, err |-> ErrNotFound]
         ELSE [m |-> m, user |-> m.users[id], err |-> Nil]

\* every order in which ranging over the map can produce the stored records
Orders(users) ==
    {q \in [1..Cardinality(DOMAIN users) -> DOMAIN users] :
        \A i, j \in DOMAIN q : i # j => q[i] # q[j]}

\* mutant of RepoListUsers: the loop stops one record early
RepoListUsersDropLast(m, order) ==
    IF m.shouldFail THEN [m |-> m, users |-> <<>>, err |-> "mock database error"]
    ELSE [m |-> m,
          users |-> [i \in 1..(Len(order) - 1) |-> m.users[order[i]]],
          err |-> "<nil>"]

\* order is one of Orders(m.users): Go fixes no order for ranging over a map
RepoListUsers(m, order) ==
    IF m.shouldFail THEN [m |-> m, users |-> <<>>, err |-> ErrMock]
    ELSE [m |-> m, users |-> [i \in DOMAIN order |-> m.users[order[i]]], err |-> Nil]

\* mutant of RepoCreateUser: the id is len(m.users) + 1, so the id of a
\* deleted record is given out again
RepoCreateUserReuseFreed(m, arg) ==
    IF m.shouldFail
    THEN [m |-> m, user |-> [ID |-> 0, Name |-> "", Dob |-> ZeroTime],
          err |-> "mock database error"]
    ELSE LET id   == Cardinality(DOMAIN m.users) + 1
             user == [ID |-> id, Name |-> arg.Name, Dob |-> arg.Dob]
         IN  [m    |-> [m EXCEPT !.users = [k \in DOMAIN m.users \cup {id} |->
                                               IF k = id THEN user ELSE m.users[k]],
                                 !.nextID = m.nextID + 1],
              user |-> user,
              err  |-> "<nil>"]

\* mutant of RepoCreateUser: nextID is incremented before it is used
RepoCreateUserIncrementFirst(m, arg) ==
    IF m.shouldFail
    THEN [m |-> m, user |-> [ID |-> 0, Name |-> "", Dob |-> ZeroTime],
          err |-> "mock database error"]
    ELSE LET user == [ID |-> m.nextID + 1, Name |-> arg.Name, Dob |-> arg.Dob]
         IN  [m    |-> [m EXCEPT !.users = [k \in DOMAIN m.users \cup {m.nextID + 1} |->
                                               IF k = m.nextID + 1 THEN user ELSE m.users[k]],
                                 !.nextID = m.nextID + 1],
              user |-> user,
              err  |-> "<nil>"]

\* mutant of RepoCreateUser: the id is drawn before shouldFail is looked at
RepoCreateUserDrawsIDFirst(m, arg) ==
    IF m.shouldFail
    THEN [m |-> [m EXCEPT !.nextID = @ + 1],
          user |-> [ID |-> 0, Name |-> "", Dob |-> ZeroTime],
          err |-> "mock database error"]
    ELSE LET user == [ID |-> m.nextID, Name |-> arg.Name, Dob |-> arg.Dob]
         IN  [m    |-> [m EXCEPT !.users = [k \in DOMAIN m.users \cup {m.nextID} |->
                                               IF k = m.nextID THEN user ELSE m.users[k]],
                                 !.nextID = @ + 1],
              user |-> user,
              err  |-> "<nil>"]

RepoCreateUser(m, arg) ==
    IF m.shouldFail THEN [m |-> m, user |-> ZeroUser, err |-> ErrMock]
    ELSE LET user == [ID |-> m.nextID, Name |-> arg.Name, Dob |-> arg.Dob]
         IN  [m    |-> [m EXCEPT !.users = [k \in DOMAIN m.users \cup {m.nextID} |->
                                               IF k = m.nextID THEN user ELSE m.users[k]],
                                 !.nextID = m.nextID + 1],
              user |-> user,
              err  |-> Nil]

\* mutant of RepoUpdateUser: the new name and dob are written to every record
RepoUpdateUserAll(m, arg) ==
    IF m.shouldFail
    THEN [m |-> m, user |-> [ID |-> 0, Name |-> "", Dob |-> ZeroTime],
          err |-> "mock database error"]
    ELSE IF arg.ID \notin DOMAIN m.users
         THEN [m |-> m, user |-> [ID |-> 0, Name |-> "", Dob |-> ZeroTime],
               err |-> "user not found"]
         ELSE LET all == [k \in DOMAIN m.users |->
                             [m.users[k] EXCEPT !.Name = arg.Name, !.Dob = arg.Dob]]
              IN  [m |-> [m EXCEPT !.users = all], user |-> all[arg.ID], err |-> "<nil>"]

\* mutant of RepoUpdateUser: a missing record is created (an upsert)
RepoUpdateUserUpsert(m, arg) ==
    IF m.shouldFail
    THEN [m |-> m, user |-> [ID |-> 0, Name |-> "", Dob |-> ZeroTime],
          err |-> "mock database error"]
    ELSE LET user == [ID |-> arg.ID, Name |-> arg.Name, Dob |-> arg.Dob]
         IN  [m    |-> [m EXCEPT !.users = [k \in DOMAIN m.users \cup {arg.ID} |->
                                               IF k = arg.ID THEN user ELSE m.users[k]]],
              user |-> user,
              err  |-> "<nil>"]

\* mutant of RepoUpdateUser: the update draws an id from the counter
RepoUpdateUserDrawsID(m, arg) ==
    IF m.shouldFail
    THEN [m |-> m, user |-> [ID |-> 0, Name |-> "", Dob |-> ZeroTime],
          err |-> "mock database error"]
    ELSE IF arg.ID \notin DOMAIN m.users
         THEN [m |-> m, user |-> [ID |-> 0, Name |-> "", Dob |-> ZeroTime],
               err |-> "user not found"]
         ELSE LET user == [m.users[arg.ID] EXCEPT !.Name = arg.Name, !.Dob = arg.Dob]
              IN  [m    |-> [m EXCEPT !.users[arg.ID] = user, !.nextID = @ + 1],
                   user |-> user,
                   err  |-> "<nil>"]

RepoUpdateUser(m, arg) ==
    IF m.shouldFail THEN [m |-> m, user |-> ZeroUser, err |-> ErrMock]
    ELSE IF arg.ID \notin DOMAIN m.users
         THEN [m |-> m, user |-> ZeroUser, err |-> ErrNotFound]
         ELSE LET user == [m.users[arg.ID] EXCEPT !.Name = arg.Name, !.Dob = arg.Dob]
              IN  [m    |-> [m EXCEPT !.users[arg.ID] = user],
                   user |-> user,
                   err  |-> Nil]

\* mutant of RepoDeleteUser: delete(m.users, id) without the exists check
RepoDeleteUserUnchecked(m, id) ==
    IF m.shouldFail THEN [m |-> m, err |-> "mock database error"]
    ELSE [m   |-> [m EXCEPT !.users = [k \in DOMAIN m.users \ {id} |-> m.users[k]]],
          err |-> "<nil>"]

\* mutant of RepoDeleteUser: nil is returned and the record stays
RepoDeleteUserKeeps(m, id) ==
    IF m.shouldFail THEN [m |-> m, err |-> "mock database error"]
    ELSE IF id \notin DOMAIN m.users THEN [m |-> m, err |-> "user not found"]
    ELSE [m |-> m, err |-> "<nil>"]

RepoDeleteUser(m, id) ==
    IF m.shouldFail THEN [m |-> m, err |-> ErrMock]
    ELSE IF id \notin DOMAIN m.users
         THEN [m |-> m, err |-> ErrNotFound]
         ELSE [m   |-> [m EXCEPT !.users = [k \in DOMAIN m.users \ {id} |-> m.users[k]]],
               err |-> Nil]

RepoSetShouldFail(m, fail) == [m EXCEPT !.shouldFail = fail]

-----------------------------------------------------------------------------
(* internal/service: calculateAge and UserService.  now is time.Now() and  *)
(* loc the offset of time.Local; a result carries the repository state     *)
(* after the call, the number of repository calls made and the log events  *)
(* emitted.                                                                *)

\* mutant of calculateAge: the day is compared with <= instead of <
calculateAgeDayInclusive(dob, now, loc) ==
    LET current    == Civil(now, loc)
        birth      == Civil(dob, 0)
        yearsApart == current.year - birth.year
    IN  IF \/ current.month < birth.month
           \/ (current.month = birth.month /\ current.day <= birth.day)
        THEN yearsApart - 1
        ELSE yearsApart

\* current is in time.Local, dob (parsed without a zone) in UTC
calculateAge(dob, now, loc) ==
    LET current    == Civil(now, loc)
        birth      == Civil(dob, 0)
        yearsApart == current.year - birth.year
    IN  IF \/ current.month < birth.month
           \/ (current.month = birth.month /\ current.day < birth.day)
        THEN yearsApart - 1
        ELSE yearsApart

\* models.UserResponse{}
ZeroResponse == [ID |-> 0, Name |-> "", DOB |-> ZeroTime, Age |-> 0]

\* mutant of UserResponse: the age is taken against the instant the process
\* started (2025-03-01T00:00Z) instead of the current one
UserResponseAgeAtStart(dbUser, now, loc) ==
    [ID   |-> dbUser.ID,
     Name |-> dbUser.Name,
     DOB  |-> dbUser.Dob,
     Age  |-> calculateAge(dbUser.Dob, Date(2025, 3, 1, 0), loc)]

UserResponse(dbUser, now, loc) ==
    [ID   |-> dbUser.ID,
     Name |-> dbUser.Name,
     DOB  |-> dbUser.Dob,
     Age  |-> calculateAge(dbUser.Dob, now, loc)]

\* mutant of SvcGetUser: the repository's error is dropped and the zero
\* response returned with a nil error
SvcGetUserErrorDropped(m, id, now, loc) ==
    LET r == RepoGetUser(m, id)
    IN  IF r.err # "<nil>"
        THEN [m |-> r.m, resp |-> [ID |-> 0, Name |-> "", DOB |-> ZeroTime, Age |-> 0],
              err |-> "<nil>", calls |-> 1, log |-> <<>>]
        ELSE [m |-> r.m,
              resp |-> [ID   |-> r.user.ID,
                        Name |-> r.user.Name,
                        DOB  |-> r.user.Dob,
                        Age  |-> calculateAge(r.user.Dob, now, loc)],
              err |-> "<nil>", calls |-> 1, log |-> <<>>]

SvcGetUser(m, id, now, loc) ==
    LET r == RepoGetUser(m, id)
    IN  IF r.err # Nil
        THEN [m |-> r.m, resp |-> ZeroResponse, err |-> r.err, calls |-> 1, log |-> <<>>]
        ELSE [m |-> r.m, resp |-> UserResponse(r.user, now, loc), err |-> Nil,
              calls |-> 1, log |-> <<>>]

\* mutant of SvcListUsers: userResponse is declared without a value (var
\* userResponse []models.UserResponse), so it stays nil when nothing is stored
SvcListUsersNilWhenEmpty(m, order, now, loc) ==
    LET r == RepoListUsers(m, order)
    IN  IF r.err # "<nil>"
        THEN [m |-> r.m, resp |-> <<>>, isNil |-> TRUE, err |-> r.err,
              calls |-> 1, log |-> <<>>]
        ELSE [m |-> r.m,
              resp |-> [i \in DOMAIN r.users |->
                           [ID   |-> r.users[i].ID,
                            Name |-> r.users[i].Name,
                            DOB  |-> r.users[i].Dob,
                            Age  |-> calculateAge(r.users[i].Dob, now, loc)]],
              isNil |-> Len(r.users) = 0, err |-> "<nil>", calls |-> 1, log |-> <<>>]

\* resp is the slice returned: <<>> stands for nil as well as for empty
SvcListUsers(m, order, now, loc) ==
    LET r == RepoListUsers(m, order)
    IN  IF r.err # Nil
        THEN [m |-> r.m, resp |-> <<>>, isNil |-> TRUE, err |-> r.err,
              calls |-> 1, log |-> <<>>]
        ELSE [m |-> r.m,
              resp |-> [i \in DOMAIN r.users |-> UserResponse(r.users[i], now, loc)],
              isNil |-> FALSE, err |-> Nil, calls |-> 1, log |-> <<>>]

\* mutant of SvcCreateUser: the repository is called a second time
SvcCreateUserTwice(m, name, dob, now, loc) ==
    LET first == RepoCreateUser(m, [Name |-> name, Dob |-> dob])
        r     == RepoCreateUser(first.m, [Name |-> name, Dob |-> dob])
    IN  IF r.err # "<nil>"
        THEN [m |-> r.m, resp |-> ZeroResponse, err |-> r.err, calls |-> 2, log |-> <<>>,
              passed |-> <<[Name |-> name, Dob |-> dob], [Name |-> name, Dob |-> dob]>>]
        ELSE [m |-> r.m, resp |-> UserResponse(r.user, now, loc), err |-> "<nil>",
              calls |-> 2, log |-> <<>>,
              passed |-> <<[Name |-> name, Dob |-> dob], [Name |-> name, Dob |-> dob]>>]

SvcCreateUser(m, name, dob, now, loc) ==
    LET r == RepoCreateUser(m, [Name |-> name, Dob |-> dob])
    IN  IF r.err # Nil
        THEN [m |-> r.m, resp |-> ZeroResponse, err |-> r.err, calls |-> 1, log |-> <<>>,
              passed |-> <<[Name |-> name, Dob |-> dob]>>]
        ELSE [m |-> r.m, resp |-> UserResponse(r.user, now, loc), err |-> Nil,
              calls |-> 1, log |-> <<>>, passed |-> <<[Name |-> name, Dob |-> dob]>>]

SvcUpdateUser(m, id, name, dob, now, loc) ==
    LET r == RepoUpdateUser(m, [ID |-> id, Name |-> name, Dob |-> dob])
    IN  IF r.err # Nil
        THEN [m |-> r.m, resp |-> ZeroResponse, err |-> r.err, calls |-> 1, log |-> <<>>,
              passed |-> <<[Name |-> name, Dob |-> dob]>>]
        ELSE [m |-> r.m, resp |-> UserResponse(r.user, now, loc), err |-> Nil,
              calls |-> 1, log |-> <<>>, passed |-> <<[Name |-> name, Dob |-> dob]>>]

\* mutant of SvcDeleteUser: the error is returned without a log event
SvcDeleteUserSilentError(m, id) ==
    LET r == RepoDeleteUser(m, id)
    IN  IF r.err # "<nil>"
        THEN [m |-> r.m, err |-> r.err, calls |-> 1, log |-> <<>>]
        ELSE [m |-> r.m, err |-> "<nil>", calls |-> 1,
              log |-> <<[level |-> "info", msg |-> "user deleted successfully", id |-> id]>>]

SvcDeleteUser(m, id) ==
    LET r == RepoDeleteUser(m, id)
    IN  IF r.err # Nil
        THEN [m |-> r.m, err |-> r.err, calls |-> 1,
              log |-> <<[level |-> "error", msg |-> "failed to delete user", id |-> id]>>]
        ELSE [m |-> r.m, err |-> Nil, calls |-> 1,
              log |-> <<[level |-> "info", msg |-> "user deleted successfully", id |-> id]>>]

-----------------------------------------------------------------------------
(* internal/handler: the HTTP handlers.  A request body is                 *)
(* [parses, Name, DOB]: parses is FALSE when BodyParser fails.  A handler  *)
(* returns the repository state after the request and the outcome of the   *)
(* request.                                                                *)

\* the outcome of one request: what the caller gets (the HTTP status and
\* the body's error field or records; for the test runner the TestResult's
\* Success, Message, Error and Data), and what was done to produce it: the
\* id passed to the service (0 when no call was made), the error the service
\* returned, the number of repository calls made and the service's log
\* events; isNil tells a nil slice of records (encoded as null) from an empty
\* one (encoded as []) where the service returned a slice; at is the clock
\* when the request was answered, filled in when the outcome is recorded;
\* passed is the name and the dob the service handed to the repository's
\* CreateUser or UpdateUser
Outcome(op, idp, req, status, success, message, error, resp, id, svcErr, calls, log) ==
    [op |-> op, idp |-> idp, req |-> req, status |-> status, success |-> success,
     message |-> message, error |-> error, resp |-> resp, id |-> id,
     svcErr |-> svcErr, calls |-> calls, log |-> log, isNil |-> FALSE, at |-> 0,
     passed |-> <<>>]

\* an HTTP response
Http(op, idp, req, status, error, resp, id, svcErr, calls, log) ==
    Outcome(op, idp, req, status, status \in {200, 204}, "", error, resp, id,
            svcErr, calls, log)

\* a *TestResult of the SystemTestRunner
TestResult(op, req, success, message, error, resp, id, svcErr, calls, log) ==
    Outcome(op, <<>>, req, 0, success, message, error, resp, id, svcErr, calls, log)

NoRequest == [parses |-> FALSE, Name |-> "", DOB |-> <<>>]

\* the test runner calls the service with a name and a dob of its own, thirty
\* years before this instant, while the repository fails, and the deferred
\* call puts the repository back to work on the way out
RunDatabaseErrorTest(m, now, loc) ==
    LET failing == RepoSetShouldFail(m, TRUE)
        r       == SvcCreateUser(failing, "Test User",
                                 AddDate(TimeNow(now, loc), -30, 0, 0).t, now, loc)
        after   == RepoSetShouldFail(r.m, FALSE)
    IN  IF r.err = Nil
        THEN [m |-> after,
              out |-> [TestResult("RunDatabaseErrorTest", NoRequest, FALSE,
                                  "Database error should have been returned", Nil,
                                  <<>>, 0, Nil, r.calls, r.log)
                          EXCEPT !.passed = r.passed]]
        ELSE [m |-> after,
              out |-> [TestResult("RunDatabaseErrorTest", NoRequest, TRUE,
                                  "Database error handled correctly", r.err,
                                  <<>>, 0, r.err, r.calls, r.log)
                          EXCEPT !.passed = r.passed]]

UserHandlerListUsers(m, order, now, loc) ==
    LET r == SvcListUsers(m, order, now, loc)
    IN  IF r.err # Nil
        THEN [m |-> r.m,
              out |-> [Http("ListUsers", <<>>, NoRequest, 500, "failed to fetch users",
                               <<>>, 0, r.err, r.calls, r.log)
                          EXCEPT !.isNil = r.isNil]]
        ELSE [m |-> r.m,
              out |-> [Http("ListUsers", <<>>, NoRequest, 200, Nil, r.resp, 0,
                               Nil, r.calls, r.log)
                          EXCEPT !.isNil = r.isNil]]

UserHandlerGetUser(m, idp, now, loc) ==
    LET id == ParseInt(idp)
        r  == SvcGetUser(m, id.n, now, loc)
    IN  IF ~id.ok
        THEN [m |-> m,
              out |-> Http("GetUser", idp, NoRequest, 400, "invalid user id",
                              <<>>, 0, Nil, 0, <<>>)]
        ELSE IF r.err # Nil
        THEN [m |-> r.m,
              out |-> Http("GetUser", idp, NoRequest, 404, "user not found",
                              <<>>, id.n, r.err, r.calls, r.log)]
        ELSE [m |-> r.m,
              out |-> Http("GetUser", idp, NoRequest, 200, Nil, <<r.resp>>, id.n,
                              Nil, r.calls, r.log)]

\* mutant of UserHandlerCreateUser: the validation error is logged but the
\* handler does not return on it
UserHandlerCreateUserUnchecked(m, req, now, loc) ==
    LET dob == ParseDate(req.DOB)
        r   == SvcCreateUser(m, req.Name, dob.t, now, loc)
    IN  IF ~req.parses
        THEN [m |-> m,
              out |-> Http("CreateUser", <<>>, req, 400, "invalid request body",
                           <<>>, 0, "<nil>", 0, <<>>)]
        ELSE IF ~dob.ok
        THEN [m |-> m,
              out |-> Http("CreateUser", <<>>, req, 400,
                           "invalid date format (Use YYYY-MM-DD)", <<>>, 0, "<nil>", 0, <<>>)]
        ELSE IF r.err # "<nil>"
        THEN [m |-> r.m,
              out |-> [Http("CreateUser", <<>>, req, 500, "failed to create user",
                           <<>>, 0, r.err, r.calls, r.log)
                          EXCEPT !.passed = r.passed]]
        ELSE [m |-> r.m,
              out |-> [Http("CreateUser", <<>>, req, 200, "<nil>", <<r.resp>>, 0,
                           "<nil>", r.calls, r.log)
                          EXCEPT !.passed = r.passed]]

UserHandlerCreateUser(m, req, now, loc) ==
    LET verr == ValidateStruct(req, now)
        dob  == ParseDate(req.DOB)
        r    == SvcCreateUser(m, req.Name, dob.t, now, loc)
    IN  IF ~req.parses
        THEN [m |-> m,
              out |-> Http("CreateUser", <<>>, req, 400, "invalid request body",
                              <<>>, 0, Nil, 0, <<>>)]
        ELSE IF verr # Nil
        THEN [m |-> m,
              out |-> Http("CreateUser", <<>>, req, 400, verr, <<>>, 0, Nil, 0, <<>>)]
        ELSE IF ~dob.ok
        THEN [m |-> m,
              out |-> Http("CreateUser", <<>>, req, 400,
                              "invalid date format (Use YYYY-MM-DD)", <<>>, 0, Nil, 0, <<>>)]
        ELSE IF r.err # Nil
        THEN [m |-> r.m,
              out |-> [Http("CreateUser", <<>>, req, 500, "failed to create user",
                              <<>>, 0, r.err, r.calls, r.log)
                          EXCEPT !.passed = r.passed]]
        ELSE [m |-> r.m,
              out |-> [Http("CreateUser", <<>>, req, 200, Nil, <<r.resp>>, 0,
                              Nil, r.calls, r.log)
                          EXCEPT !.passed = r.passed]]

UserHandlerUpdateUser(m, idp, req, now, loc) ==
    LET id   == ParseInt(idp)
        verr == ValidateStruct(req, now)
        dob  == ParseDate(req.DOB)
        r    == SvcUpdateUser(m, id.n, req.Name, dob.t, now, loc)
    IN  IF ~id.ok
        THEN [m |-> m,
              out |-> Http("UpdateUser", idp, req, 400, "invalid user id",
                              <<>>, 0, Nil, 0, <<>>)]
        ELSE IF ~req.parses
        THEN [m |-> m,
              out |-> Http("UpdateUser", idp, req, 400, "invalid request body",
                              <<>>, 0, Nil, 0, <<>>)]
        ELSE IF verr # Nil
        THEN [m |-> m,
              out |-> Http("UpdateUser", idp, req, 400, verr, <<>>, 0, Nil, 0, <<>>)]
        ELSE IF ~dob.ok
        THEN [m |-> m,
              out |-> Http("UpdateUser", idp, req, 400,
                              "invalid data format (use YYYY-MM-DD)", <<>>, 0, Nil, 0, <<>>)]
        ELSE IF r.err # Nil
        THEN [m |-> r.m,
              out |-> [Http("UpdateUser", idp, req, 500, "failed to update user",
                              <<>>, id.n, r.err, r.calls, r.log)
                          EXCEPT !.passed = r.passed]]
        ELSE [m |-> r.m,
              out |-> [Http("UpdateUser", idp, req, 200, Nil, <<r.resp>>, id.n,
                              Nil, r.calls, r.log)
                          EXCEPT !.passed = r.passed]]

UserHandlerDeleteUser(m, idp) ==
    LET id == ParseInt(idp)
        r  == SvcDeleteUser(m, id.n)
    IN  IF ~id.ok
        THEN [m |-> m,
              out |-> Http("DeleteUser", idp, NoRequest, 400, "invalid user id",
                              <<>>, 0, Nil, 0, <<>>)]
        ELSE IF r.err # Nil
        THEN [m |-> r.m,
              out |-> Http("DeleteUser", idp, NoRequest, 500, "failed to delete user",
                              <<>>, id.n, r.err, r.calls, r.log)]
        ELSE [m |-> r.m,
              out |-> Http("DeleteUser", idp, NoRequest, 204, Nil, <<>>, id.n,
                              Nil, r.calls, r.log)]

-----------------------------------------------------------------------------
(* internal/test/mock_repository.go: the SystemTestRunner's create and     *)
(* update workflows, which validate, parse and call the service directly   *)

RunCreateUserTest(m, name, dob, now, loc) ==
    LET req    == [parses |-> TRUE, Name |-> name, DOB |-> dob]
        verr   == ValidateStruct(req, now)
        parsed == ParseDate(dob)
        r      == SvcCreateUser(m, name, parsed.t, now, loc)
    IN  IF verr # Nil
        THEN [m |-> m,
              out |-> TestResult("RunCreateUserTest", req, FALSE, "Validation failed",
                                 verr, <<>>, 0, Nil, 0, <<>>)]
        ELSE IF ~parsed.ok
        THEN [m |-> m,
              out |-> TestResult("RunCreateUserTest", req, FALSE, "Date parsing failed",
                                 "parsing time", <<>>, 0, Nil, 0, <<>>)]
        ELSE IF r.err # Nil
        THEN [m |-> r.m,
              out |-> [TestResult("RunCreateUserTest", req, FALSE, "Service call failed",
                                 r.err, <<>>, 0, r.err, r.calls, r.log)
                          EXCEPT !.passed = r.passed]]
        ELSE [m |-> r.m,
              out |-> [TestResult("RunCreateUserTest", req, TRUE,
                                 "User created successfully", Nil, <<r.resp>>, 0, Nil,
                                 r.calls, r.log)
                          EXCEPT !.passed = r.passed]]

\* mutant of RunUpdateUserTest: the request is not validated
RunUpdateUserTestUnchecked(m, id, name, dob, now, loc) ==
    LET req    == [parses |-> TRUE, Name |-> name, DOB |-> dob]
        parsed == ParseDate(dob)
        r      == SvcUpdateUser(m, id, name, parsed.t, now, loc)
    IN  IF ~parsed.ok
        THEN [m |-> m,
              out |-> TestResult("RunUpdateUserTest", req, FALSE, "Date parsing failed",
                                 "parsing time", <<>>, 0, Nil, 0, <<>>)]
        ELSE IF r.err # Nil
        THEN [m |-> r.m,
              out |-> [TestResult("RunUpdateUserTest", req, FALSE, "Failed to update user",
                                  r.err, <<>>, id, r.err, r.calls, r.log)
                          EXCEPT !.passed = r.passed]]
        ELSE [m |-> r.m,
              out |-> [TestResult("RunUpdateUserTest", req, TRUE,
                                  "User updated successfully", Nil, <<r.resp>>, id, Nil,
                                  r.calls, r.log)
                          EXCEPT !.passed = r.passed]]

RunUpdateUserTest(m, id, name, dob, now, loc) ==
    LET req    == [parses |-> TRUE, Name |-> name, DOB |-> dob]
        verr   == ValidateStruct(req, now)
        parsed == ParseDate(dob)
        r      == SvcUpdateUser(m, id, name, parsed.t, now, loc)
    IN  IF verr # Nil
        THEN [m |-> m,
              out |-> TestResult("RunUpdateUserTest", req, FALSE, "Validation failed",
                                 verr, <<>>, 0, Nil, 0, <<>>)]
        ELSE IF ~parsed.ok
        THEN [m |-> m,
              out |-> TestResult("RunUpdateUserTest", req, FALSE, "Date parsing failed",
                                 "parsing time", <<>>, 0, Nil, 0, <<>>)]
        ELSE IF r.err # Nil
        THEN [m |-> r.m,
              out |-> [TestResult("RunUpdateUserTest", req, FALSE, "Failed to update user",
                                 r.err, <<>>, id, r.err, r.calls, r.log)
                          EXCEPT !.passed = r.passed]]
        ELSE [m |-> r.m,
              out |-> [TestResult("RunUpdateUserTest", req, TRUE,
                                 "User updated successfully", Nil, <<r.resp>>, id, Nil,
                                 r.calls, r.log)
                          EXCEPT !.passed = r.passed]]

-----------------------------------------------------------------------------
(* The system: one server (or one SystemTestRunner) over one repository    *)

VARIABLES
    users,       \* MockUserRepository.users: id -> database.User
    nextID,      \* MockUserRepository.nextID
    shouldFail,  \* MockUserRepository.shouldFail
    now,         \* the wall clock, time.Now()
    loc,         \* the offset of time.Local from UTC, in hours
    last,        \* the outcome of the latest request
    sub,         \* history: id -> the request that created the record, for
                 \* the records not updated or deleted since
    listed,      \* history: <<the records returned by the first successful
                 \* list since the latest successful create, update or
                 \* delete>>, <<>> when there was none
    assigned,    \* history: the ids returned by the successful creates, in
                 \* the order of the creates
    seen,        \* history: <<id, age and time of the first of the successful
                 \* Gets of one id that were the latest requests>>, <<>>
                 \* when the latest request was not such a Get
    mu,          \* MockUserRepository.mu
    gor,         \* the goroutines calling the repository at the same time:
                 \* for each its next statement, its call, its local
                 \* variable user, the value it is about to return and the
                 \* history of its calls
    ageTest,     \* the age test that ran last: its row of the table and the
                 \* age calculateAge returned for it
    removed,     \* the ids of the successful deletes, in order
    served       \* the HTTP request the server answered last: its method,
                 \* path and status and the log entries written for it

vars == <<users, nextID, shouldFail, now, loc, last, sub, listed, assigned, seen,
          mu, gor, ageTest, removed, served>>

\* the requests sent: names of length 0, 1 (a blank), 255 and 256; dobs that
\* are a leap day, the day the clock starts on, the day after it, no date
\* of the calendar, a date in another layout, and nothing
NameBlank == " "
NameLong == Repeat("a", NameMax)
NameTooLong == Repeat("a", NameMax + 1)

DobLeap == <<"2", "0", "2", "4", "-", "0", "2", "-", "2", "9">>
DobStart == <<"2", "0", "2", "5", "-", "0", "3", "-", "0", "1">>
DobNext == <<"2", "0", "2", "5", "-", "0", "3", "-", "0", "2">>
DobNoDate == <<"2", "0", "2", "5", "-", "0", "2", "-", "3", "0">>
DobLayout == <<"0", "3", "-", "0", "1", "-", "2", "0", "2", "5">>

Request(n, d) == [parses |-> TRUE, Name |-> n, DOB |-> d]

Requests ==
    {Request(NameBlank, DobLeap), Request(NameLong, DobLeap),
     Request(NameBlank, DobStart), Request(NameLong, DobNext),
     Request("", DobLeap), Request(NameTooLong, DobLeap),
     Request(NameBlank, <<>>), Request(NameBlank, DobNoDate),
     Request(NameBlank, DobLayout), Request("", DobLayout),
     Request(NameTooLong, DobNext), NoRequest}

IdParams == {Pad(i, 1) : i \in 1..(MaxUsers + 1)} \cup {<<"x">>}

\* the instants the clock shows: from midnight UTC of 2025-03-01 in steps of
\* four hours, and the same a year (365 days) later
Start == Date(2025, 3, 1, 0)

Clock == {Start + 4 * a + 8760 * b : a \in 0..MaxTicks, b \in 0..MaxYears}

Locations == {-8, 0, 5}

Repo == [users |-> users, nextID |-> nextID, shouldFail |-> shouldFail]

\* no age test has run
NoAgeTest == [Name |-> "", DOB |-> [t |-> 0, loc |-> 0], Expected |-> 0, age |-> 0]

\* no HTTP request has been answered
NoneServed == [method |-> "", path |-> "", status |-> 0, entries |-> <<>>]

Idle == Outcome("none", <<>>, NoRequest, 0, FALSE, "", Nil, <<>>, 0, Nil, 0, <<>>)

\* a server in UTC, started four hours into 2025-03-01
Init ==
    /\ users = NewMockUserRepository.users
    /\ nextID = NewMockUserRepository.nextID
    /\ shouldFail = NewMockUserRepository.shouldFail
    /\ now = Start + 4
    /\ loc = 0
    /\ last = Idle
    /\ sub = <<>>
    /\ listed = <<>>
    /\ assigned = <<>>
    /\ seen = <<>>
    /\ mu = [writer |-> 0, readers |-> {}]
    /\ gor = <<>>
    /\ ageTest = NoAgeTest
    /\ removed = <<>>
    /\ served = NoneServed

CreateOps == {"CreateUser", "RunCreateUserTest"}
UpdateOps == {"UpdateUser", "RunUpdateUserTest"}
WriteOps == CreateOps \cup UpdateOps \cup {"DeleteUser"}

Record(resp) == [ID |-> resp.ID, Name |-> resp.Name, DOB |-> resp.DOB]

\* the history variables after a request with outcome out
SubAfter(out) ==
    IF out.op \in CreateOps /\ out.success
    THEN [k \in DOMAIN sub \cup {out.resp[1].ID} |->
             IF k = out.resp[1].ID THEN [Name |-> out.req.Name, DOB |-> out.req.DOB]
             ELSE sub[k]]
    ELSE IF out.op \in UpdateOps \cup {"DeleteUser"} /\ out.success
    THEN [k \in DOMAIN sub \ {out.id} |-> sub[k]]
    ELSE sub

ListedAfter(out) ==
    IF out.op = "ListUsers" /\ out.success
    THEN (IF listed = <<>> THEN <<[i \in DOMAIN out.resp |-> Record(out.resp[i])]>>
          ELSE listed)
    ELSE IF out.op \in WriteOps /\ out.success
    THEN <<>>
    ELSE listed

AssignedAfter(out) ==
    IF out.op \in CreateOps /\ out.success
    THEN Append(assigned, out.resp[1].ID)
    ELSE assigned

RemovedAfter(out) ==
    IF out.op = "DeleteUser" /\ out.success
    THEN Append(removed, out.id)
    ELSE removed

SeenAfter(out) ==
    IF out.op = "GetUser" /\ out.success
    THEN (IF seen # <<>> /\ seen[1].id = out.id THEN seen
          ELSE <<[id |-> out.id, age |-> out.resp[1].Age, at |-> now]>>)
    ELSE <<>>

\* the result r of a handler and the history of the requests recorded
Recorded(r) ==
    /\ users' = r.m.users
    /\ nextID' = r.m.nextID
    /\ shouldFail' = r.m.shouldFail
    /\ last' = [r.out EXCEPT !.at = now]
    /\ sub' = SubAfter(r.out)
    /\ listed' = ListedAfter(r.out)
    /\ assigned' = AssignedAfter(r.out)
    /\ seen' = SeenAfter(r.out)
    /\ removed' = RemovedAfter(r.out)
    /\ UNCHANGED <<now, loc, mu, gor, ageTest>>

\* a request handled: r is the handler's result
Handled(r) == Recorded(r) /\ UNCHANGED served

ListUsers ==
    \E order \in Orders(users) :
        \E r \in {UserHandlerListUsers(Repo, order, now, loc)} : Handled(r)

GetUser ==
    \E idp \in IdParams :
        \E r \in {UserHandlerGetUser(Repo, idp, now, loc)} : Handled(r)

CreateUser ==
    /\ nextID <= MaxUsers
    /\ \E req \in Requests :
        \E r \in {UserHandlerCreateUser(Repo, req, now, loc)} : Handled(r)

UpdateUser ==
    \E idp \in IdParams, req \in Requests :
        \E r \in {UserHandlerUpdateUser(Repo, idp, req, now, loc)} : Handled(r)

DeleteUser ==
    \E idp \in IdParams :
        \E r \in {UserHandlerDeleteUser(Repo, idp)} : Handled(r)

TestCreateUser ==
    /\ nextID <= MaxUsers
    /\ \E req \in Requests \ {NoRequest} :
        \E r \in {RunCreateUserTest(Repo, req.Name, req.DOB, now, loc)} : Handled(r)

TestUpdateUser ==
    \E id \in 1..(MaxUsers + 1), req \in Requests \ {NoRequest} :
        \E r \in {RunUpdateUserTest(Repo, id, req.Name, req.DOB, now, loc)} : Handled(r)

TestDatabaseError ==
    \E r \in {RunDatabaseErrorTest(Repo, now, loc)} : Handled(r)

SetShouldFail ==
    \E fail \in BOOLEAN :
        /\ shouldFail' = RepoSetShouldFail(Repo, fail).shouldFail
        /\ last' = [Outcome("SetShouldFail", <<>>, NoRequest, 0, TRUE, "", Nil, <<>>,
                             0, Nil, 0, <<>>) EXCEPT !.at = now]
        /\ seen' = <<>>
        /\ UNCHANGED <<users, nextID, now, loc, sub, listed, assigned, mu, gor,
                        ageTest, removed, served>>

\* time passes
Tick ==
    /\ now' \in {t \in Clock : t > now}
    /\ UNCHANGED <<users, nextID, shouldFail, loc, last, sub, listed, assigned, seen,
                    mu, gor, ageTest, removed, served>>

Next ==
    \/ ListUsers
    \/ GetUser
    \/ CreateUser
    \/ UpdateUser
    \/ DeleteUser
    \/ TestCreateUser
    \/ TestUpdateUser
    \/ TestDatabaseError
    \/ SetShouldFail

Spec == Init /\ [][Next]_vars

\* The same server in any time zone, started at midnight UTC of 2025-03-01,
\* with the clock running while it creates, updates and reads records.
TimedInit ==
    /\ users = NewMockUserRepository.users
    /\ nextID = NewMockUserRepository.nextID
    /\ shouldFail = NewMockUserRepository.shouldFail
    /\ now = Start
    /\ loc \in Locations
    /\ last = Idle
    /\ sub = <<>>
    /\ listed = <<>>
    /\ assigned = <<>>
    /\ seen = <<>>
    /\ mu = [writer |-> 0, readers |-> {}]
    /\ gor = <<>>
    /\ ageTest = NoAgeTest
    /\ removed = <<>>
    /\ served = NoneServed

TimedCreateUser == nextID <= MaxTimedUsers /\ CreateUser

TimedNext ==
    \/ ListUsers
    \/ GetUser
    \/ TimedCreateUser
    \/ UpdateUser
    \/ Tick

TimedSpec == TimedInit /\ [][TimedNext]_vars

-----------------------------------------------------------------------------
(* The repository under concurrent callers: goroutines that call the       *)
(* methods of one MockUserRepository, one statement of                     *)
(* internal/test/mock_repository.go at a time.  A goroutine's pc is the    *)
(* statement it executes next: "check" the test of m.shouldFail a method   *)
(* starts with, "lock" the m.mu.Lock() or m.mu.RLock(), a method's initial *)
(* and a line number a statement of its body, "unlock" the deferred        *)
(* Unlock or RUnlock together with the return.                             *)

Procs == 1..MaxProcs

\* the ids the callers ask for
ConcIds == 1..MaxProcs

\* the name and dob goroutine p writes: no two goroutines share a name or a
\* dob
WritePair(p) == [Name |-> Repeat("a", p), Dob |-> Date(2024, 2, 29, 0) + 24 * p]

NoCall == [method |-> "none", id |-> 0, name |-> "", dob |-> ZeroTime, fail |-> FALSE]

\* what a method returns: a record, a list of records, an error
NoRet == [user |-> ZeroUser, users |-> <<>>, err |-> Nil]

ConcCalls(p) ==
    {[NoCall EXCEPT !.method = "CreateUser",
                    !.name = WritePair(p).Name, !.dob = WritePair(p).Dob]}
    \cup {[NoCall EXCEPT !.method = "UpdateUser", !.id = k,
                         !.name = WritePair(p).Name, !.dob = WritePair(p).Dob] :
             k \in ConcIds}
    \cup {[NoCall EXCEPT !.method = meth, !.id = k] :
             meth \in {"GetUser", "DeleteUser"}, k \in ConcIds}
    \cup {[NoCall EXCEPT !.method = "ListUsers"]}
    \cup {[NoCall EXCEPT !.method = "SetShouldFail", !.fail = f] : f \in BOOLEAN}

\* a goroutine between calls; rets is the history of the calls it made,
\* each with what it returned and the goroutines it ran along with
IdleGoroutine ==
    [pc |-> "idle", call |-> NoCall, user |-> ZeroUser, ret |-> NoRet,
     con |-> {}, rets |-> <<>>]

\* sync.RWMutex: the goroutine holding the write lock (0: none) and the
\* goroutines holding the read lock
NewRWMutex == [writer |-> 0, readers |-> {}]

\* mutant of CanLock: the write lock is granted like a read lock, whoever
\* holds the mutex
CanLockAlways(m) == m = m

\* Lock() goes through when nobody holds the mutex
CanLock(m) == m.writer = 0 /\ m.readers = {}

\* RLock() goes through when nobody holds the write lock
CanRLock(m) == m.writer = 0

\* by which lock a method guards its body
WriteMethods == {"CreateUser", "UpdateUser", "DeleteUser", "SetShouldFail"}
ReadMethods == {"GetUser", "ListUsers"}

\* the first statement of a method's body
BodyStart(method) ==
    CASE method = "GetUser"       -> "g41"
      [] method = "ListUsers"     -> "l57"
      [] method = "CreateUser"    -> "c73"
      [] method = "UpdateUser"    -> "u92"
      [] method = "DeleteUser"    -> "d110"
      [] method = "SetShouldFail" -> "s121"

\* goroutine p goes on to statement pc
Goto(p, pc) == gor' = [gor EXCEPT ![p].pc = pc]

\* goroutine p goes on to the return, with ret to return
GotoReturn(p, ret) == gor' = [gor EXCEPT ![p].pc = "unlock", ![p].ret = ret]

\* the goroutine after its call returned ret
Returned(g, ret) ==
    [IdleGoroutine EXCEPT
        !.rets = Append(g.rets, [call |-> g.call, ret |-> ret, con |-> g.con])]

ConcInit ==
    /\ users = NewMockUserRepository.users
    /\ nextID = NewMockUserRepository.nextID
    /\ shouldFail = NewMockUserRepository.shouldFail
    /\ now = Start + 4
    /\ loc = 0
    /\ last = Idle
    /\ sub = <<>>
    /\ listed = <<>>
    /\ assigned = <<>>
    /\ seen = <<>>
    /\ mu = NewRWMutex
    /\ gor = [p \in Procs |-> IdleGoroutine]
    /\ ageTest = NoAgeTest
    /\ removed = <<>>
    /\ served = NoneServed

\* what the callers of the repository do not touch
ConcFrame ==
    UNCHANGED <<now, loc, last, sub, listed, assigned, seen, ageTest, removed,
                served>>

\* a goroutine calls a method; con records the goroutines whose calls are
\* under way at some time during the call
Call ==
    \E p \in Procs :
        /\ gor[p].pc = "idle"
        /\ Len(gor[p].rets) < MaxCalls
        /\ \E c \in ConcCalls(p) :
              gor' = [q \in Procs |->
                         IF q = p
                         THEN [gor[p] EXCEPT
                                  !.pc = IF c.method = "SetShouldFail"
                                         THEN "lock" ELSE "check",
                                  !.call = c,
                                  !.con = {o \in Procs \ {p} : gor[o].pc # "idle"}]
                         ELSE IF gor[q].pc # "idle"
                         THEN [gor[q] EXCEPT !.con = @ \cup {p}]
                         ELSE gor[q]]
        /\ UNCHANGED <<users, nextID, shouldFail, mu>>
        /\ ConcFrame

\* if m.shouldFail { return ..., errors.New("mock database error") }
CheckShouldFail ==
    \E p \in Procs :
        /\ gor[p].pc = "check"
        /\ gor' = [gor EXCEPT ![p] =
                      IF shouldFail
                      THEN Returned(gor[p], [NoRet EXCEPT !.err = ErrMock])
                      ELSE [gor[p] EXCEPT !.pc = "lock"]]
        /\ UNCHANGED <<users, nextID, shouldFail, mu>>
        /\ ConcFrame

\* m.mu.Lock()
Lock ==
    \E p \in Procs :
        /\ gor[p].pc = "lock"
        /\ gor[p].call.method \in WriteMethods
        /\ CanLock(mu)
        /\ mu' = [mu EXCEPT !.writer = p]
        /\ Goto(p, BodyStart(gor[p].call.method))
        /\ UNCHANGED <<users, nextID, shouldFail>>
        /\ ConcFrame

\* m.mu.RLock()
RLock ==
    \E p \in Procs :
        /\ gor[p].pc = "lock"
        /\ gor[p].call.method \in ReadMethods
        /\ CanRLock(mu)
        /\ mu' = [mu EXCEPT !.readers = @ \cup {p}]
        /\ Goto(p, BodyStart(gor[p].call.method))
        /\ UNCHANGED <<users, nextID, shouldFail>>
        /\ ConcFrame

\* GetUser: user, exists := m.users[id] ... return *user, nil
GetUser41 ==
    \E p \in Procs :
        /\ gor[p].pc = "g41"
        /\ GotoReturn(p, IF gor[p].call.id \in DOMAIN users
                         THEN [NoRet EXCEPT !.user = users[gor[p].call.id]]
                         ELSE [NoRet EXCEPT !.err = ErrNotFound])
        /\ UNCHANGED <<users, nextID, shouldFail, mu>>
        /\ ConcFrame

\* ListUsers: the loop over m.users; the list is kept as the map it copies,
\* its order being free
ListUsers57 ==
    \E p \in Procs :
        /\ gor[p].pc = "l57"
        /\ GotoReturn(p, [NoRet EXCEPT !.users = users])
        /\ UNCHANGED <<users, nextID, shouldFail, mu>>
        /\ ConcFrame

\* CreateUser: user := database.User{ID: m.nextID, ...}
CreateUser73 ==
    \E p \in Procs :
        /\ gor[p].pc = "c73"
        /\ gor' = [gor EXCEPT ![p].pc = "c78",
                              ![p].user = [ID   |-> nextID,
                                           Name |-> gor[p].call.name,
                                           Dob  |-> gor[p].call.dob]]
        /\ UNCHANGED <<users, nextID, shouldFail, mu>>
        /\ ConcFrame

\* CreateUser: m.users[m.nextID] = &user
CreateUser78 ==
    \E p \in Procs :
        /\ gor[p].pc = "c78"
        /\ users' = [k \in DOMAIN users \cup {nextID} |->
                        IF k = nextID THEN gor[p].user ELSE users[k]]
        /\ Goto(p, "c79")
        /\ UNCHANGED <<nextID, shouldFail, mu>>
        /\ ConcFrame

\* CreateUser: m.nextID++ ... return user, nil
CreateUser79 ==
    \E p \in Procs :
        /\ gor[p].pc = "c79"
        /\ nextID' = nextID + 1
        /\ GotoReturn(p, [NoRet EXCEPT !.user = gor[p].user])
        /\ UNCHANGED <<users, shouldFail, mu>>
        /\ ConcFrame

\* UpdateUser: user, exists := m.users[arg.ID]; if !exists { return ... }
UpdateUser92 ==
    \E p \in Procs :
        /\ gor[p].pc = "u92"
        /\ IF gor[p].call.id \in DOMAIN users
           THEN Goto(p, "u96")
           ELSE GotoReturn(p, [NoRet EXCEPT !.err = ErrNotFound])
        /\ UNCHANGED <<users, nextID, shouldFail, mu>>
        /\ ConcFrame

\* UpdateUser: user.Name = arg.Name, a write to the stored record (user
\* points to it; the write lock keeps it from being deleted meanwhile)
UpdateUser96 ==
    \E p \in Procs :
        /\ gor[p].pc = "u96"
        /\ users' = IF gor[p].call.id \in DOMAIN users
                    THEN [users EXCEPT ![gor[p].call.id].Name = gor[p].call.name]
                    ELSE users
        /\ Goto(p, "u97")
        /\ UNCHANGED <<nextID, shouldFail, mu>>
        /\ ConcFrame

\* UpdateUser: user.Dob = arg.Dob
UpdateUser97 ==
    \E p \in Procs :
        /\ gor[p].pc = "u97"
        /\ users' = IF gor[p].call.id \in DOMAIN users
                    THEN [users EXCEPT ![gor[p].call.id].Dob = gor[p].call.dob]
                    ELSE users
        /\ Goto(p, "u98")
        /\ UNCHANGED <<nextID, shouldFail, mu>>
        /\ ConcFrame

\* UpdateUser: return *user, nil
UpdateUser98 ==
    \E p \in Procs :
        /\ gor[p].pc = "u98"
        /\ GotoReturn(p, IF gor[p].call.id \in DOMAIN users
                         THEN [NoRet EXCEPT !.user = users[gor[p].call.id]]
                         ELSE [NoRet EXCEPT !.user = [ID   |-> gor[p].call.id,
                                                      Name |-> gor[p].call.name,
                                                      Dob  |-> gor[p].call.dob]])
        /\ UNCHANGED <<users, nextID, shouldFail, mu>>
        /\ ConcFrame

\* DeleteUser: if _, exists := m.users[id]; !exists { return ... }
DeleteUser110 ==
    \E p \in Procs :
        /\ gor[p].pc = "d110"
        /\ IF gor[p].call.id \in DOMAIN users
           THEN Goto(p, "d113")
           ELSE GotoReturn(p, [NoRet EXCEPT !.err = ErrNotFound])
        /\ UNCHANGED <<users, nextID, shouldFail, mu>>
        /\ ConcFrame

\* DeleteUser: delete(m.users, id); return nil
DeleteUser113 ==
    \E p \in Procs :
        /\ gor[p].pc = "d113"
        /\ users' = [k \in DOMAIN users \ {gor[p].call.id} |-> users[k]]
        /\ GotoReturn(p, NoRet)
        /\ UNCHANGED <<nextID, shouldFail, mu>>
        /\ ConcFrame

\* SetShouldFail: m.shouldFail = fail
SetShouldFail121 ==
    \E p \in Procs :
        /\ gor[p].pc = "s121"
        /\ shouldFail' = gor[p].call.fail
        /\ GotoReturn(p, NoRet)
        /\ UNCHANGED <<users, nextID, mu>>
        /\ ConcFrame

\* the deferred m.mu.Unlock() or m.mu.RUnlock(), and the return
Unlock ==
    \E p \in Procs :
        /\ gor[p].pc = "unlock"
        /\ mu' = [writer  |-> IF mu.writer = p THEN 0 ELSE mu.writer,
                  readers |-> mu.readers \ {p}]
        /\ gor' = [gor EXCEPT ![p] = Returned(gor[p], gor[p].ret)]
        /\ UNCHANGED <<users, nextID, shouldFail>>
        /\ ConcFrame

ConcNext ==
    \/ Call
    \/ CheckShouldFail
    \/ Lock
    \/ RLock
    \/ GetUser41
    \/ ListUsers57
    \/ CreateUser73
    \/ CreateUser78
    \/ CreateUser79
    \/ UpdateUser92
    \/ UpdateUser96
    \/ UpdateUser97
    \/ UpdateUser98
    \/ DeleteUser110
    \/ DeleteUser113
    \/ SetShouldFail121
    \/ Unlock

ConcSpec == ConcInit /\ [][ConcNext]_vars

-----------------------------------------------------------------------------
(* Properties.  A step answers a request when it leaves a new outcome in   *)
(* last; the clock does not move in such a step, so the unprimed now is    *)
(* the time of the request.                                                *)

Answered == last' # last

\* the request of outcome out reached validation: its body parsed and, for
\* the update handler, so did the id
Validated(out) ==
    /\ out.op \in CreateOps \cup UpdateOps
    /\ out.req.parses
    /\ (out.op = "UpdateUser" => ParseInt(out.idp).ok)

NameMessages ==
    {"Name is required", "Name must be at least 1 characters",
     "Name must be at most 255 characters"}

FutureMessage == "DOB cannot be in the future"

\* the error text carries the message for the dob, alone or after the
\* message for the name
HasDobMessage(error, msg) ==
    \/ error = msg
    \/ \E n \in NameMessages : error = n \o "; " \o msg

\* the day number of an instant in UTC
UTCDay(t) == t \div 24

\* C1: when ValidateStruct rejects a create or update request (in the
\* handlers and in the test runner), no service or repository call is made
\* for it and the stored users and the id counter are unchanged.
C1_RejectedRequestTouchesNothing ==
    [][(/\ Answered
        /\ Validated(last')
        /\ ValidateStruct(last'.req, now) # Nil)
       => (/\ last'.calls = 0
           /\ last'.svcErr = Nil
           /\ ~last'.success
           /\ users' = users
           /\ nextID' = nextID)]_vars

\* a rejected update that names a stored record
C1_Witness ==
    /\ last.op = "UpdateUser"
    /\ ParseInt(last.idp).ok
    /\ ParseInt(last.idp).n \in DOMAIN users
    /\ last.req.parses
    /\ ValidateStruct(last.req, now) # Nil
    /\ last.calls = 0

\* C2 as stated: every dob whose date is equal to or later than the current
\* (UTC) date at validation time is rejected with the future-date message.
C2_TodayOrLaterRejected ==
    [][(/\ Answered
        /\ Validated(last')
        /\ ParseDate(last'.req.DOB).ok
        /\ UTCDay(ParseDate(last'.req.DOB).t) >= UTCDay(now))
       => (/\ ~last'.success
           /\ HasDobMessage(last'.error, FutureMessage))]_vars

\* C2 amended: a well-formed dob gets the future-date message exactly when
\* its date is later than the current UTC date, or is the current UTC date
\* and the clock shows exactly 00:00 UTC; with the message the request fails
\* before any service call.
C2_NotBeforeNowRejected ==
    [][(/\ Answered
        /\ Validated(last')
        /\ ParseDate(last'.req.DOB).ok)
       => LET d     == UTCDay(ParseDate(last'.req.DOB).t)
              today == UTCDay(now)
          IN  /\ HasDobMessage(last'.error, FutureMessage)
                     <=> (d > today \/ (d = today /\ now % 24 = 0))
              /\ HasDobMessage(last'.error, FutureMessage)
                     => (~last'.success /\ last'.calls = 0)]_vars

\* a record created with the current UTC date as its dob
C2_Witness ==
    /\ last.op = "CreateUser"
    /\ last.success
    /\ UTCDay(last.resp[1].DOB) = UTCDay(now)
    /\ now % 24 # 0

\* C3 as stated: the age in every response built for a validated record
\* is >= 0, whatever the instant and the server's zone.
C3_AgeNeverNegative ==
    \A i \in DOMAIN last.resp : last.resp[i].Age >= 0

\* the day in year y on which somebody born on birth completes a year: the
\* month and day of birth, and March 1 for a leap day in a common year
AnniversaryDay(birth, y) ==
    IF birth.month = 2 /\ birth.day = 29 /\ ~IsLeap(y)
    THEN DaysFromCivil(y, 3, 1)
    ELSE DaysFromCivil(y, birth.month, birth.day)

\* the anniversaries reached by the local day of now, the birth included
AnniversariesReached(dob, now_, loc_) ==
    LET birth == Civil(dob, 0)
    IN  Cardinality({y \in birth.year..Civil(now_, loc_).year :
                        AnniversaryDay(birth, y) <= (now_ + loc_) \div 24})

C5_ValidCreateSucceeds ==
    [][(/\ Answered
        /\ last'.op \in CreateOps
        /\ last'.req.parses
        /\ Len(last'.req.Name) \in 1..255
        /\ ParseDate(last'.req.DOB).ok
        /\ UTCDay(ParseDate(last'.req.DOB).t) < UTCDay(now)
        /\ ~shouldFail)
       => (/\ last'.success
           /\ Len(last'.resp) = 1
           /\ LET r == last'.resp[1]
              IN  /\ r.ID = nextID
                  /\ r.Name = last'.req.Name
                  /\ FormatDate(r.DOB) = last'.req.DOB
                  /\ r.Age = calculateAge(r.DOB, now, loc)
                  /\ nextID \in DOMAIN users'
                  /\ users'[nextID] = [ID |-> nextID, Name |-> r.Name, Dob |-> r.DOB])]_vars

\* the second record, created with the 255-character name
C5_Witness ==
    /\ last.op = "CreateUser"
    /\ last.success
    /\ last.resp[1].ID = 2
    /\ Len(last.resp[1].Name) = 255
    /\ FormatDate(last.resp[1].DOB) = DobLeap

\* C6: with a valid dob, validation rejects the names of length 0 and of
\* more than 255 characters and accepts, untrimmed, those of 1 to 255
\* characters (a blank included): the name handed on and stored is the one
\* given.
C6_NameLengthDecides ==
    [][(/\ Answered
        /\ Validated(last')
        /\ ParseDate(last'.req.DOB).ok
        /\ ParseDate(last'.req.DOB).t < now)
       => LET n == Len(last'.req.Name)
          IN  /\ n = 0 => (/\ ~last'.success
                           /\ last'.calls = 0
                           /\ last'.error = "Name is required")
              /\ n > 255 => (/\ ~last'.success
                             /\ last'.calls = 0
                             /\ last'.error = "Name must be at most 255 characters")
              /\ n \in 1..255 =>
                    (/\ last'.calls = 1
                     /\ last'.success =>
                            (/\ last'.resp[1].Name = last'.req.Name
                             /\ users'[last'.resp[1].ID].Name = last'.req.Name))]_vars

\* a record stored under the name of one blank
C6_Witness ==
    /\ last.op \in CreateOps \cup UpdateOps
    /\ last.success
    /\ last.req.Name = " "
    /\ users[last.resp[1].ID].Name = " "

\* C7: a Get of a record that was created and not updated or deleted since
\* returns, when the repository is not in failure mode, the id asked for
\* with the name and the dob of the create request.
C7_GetReturnsWhatWasCreated ==
    (/\ last.op = "GetUser"
     /\ last.id \in DOMAIN sub
     /\ last.svcErr # ErrMock)
    => (/\ last.success
        /\ Len(last.resp) = 1
        /\ last.resp[1].ID = last.id
        /\ last.resp[1].Name = sub[last.id].Name
        /\ FormatDate(last.resp[1].DOB) = sub[last.id].DOB)

\* the first record read back after the second one was created and updated
C7_Witness ==
    /\ last.op = "GetUser"
    /\ last.success
    /\ last.id = 1
    /\ 1 \in DOMAIN sub
    /\ 2 \in DOMAIN users
    /\ 2 \notin DOMAIN sub

\* C8: the Get or Delete of an id that follows its successful Delete
\* returns the not-found error, and so does any later one while the
\* repository is not in failure mode; the Delete changes nothing.
C8_DeletedStaysDeleted ==
    [][(/\ Answered
        /\ last'.op \in {"GetUser", "DeleteUser"}
        /\ last'.calls = 1)
       => (/\ (last.op = "DeleteUser" /\ last.success /\ last'.id = last.id)
                 => (/\ last'.svcErr = ErrNotFound
                     /\ users' = users
                     /\ nextID' = nextID)
           /\ (last'.id \in (1..(nextID - 1)) \ DOMAIN users /\ ~shouldFail)
                 => (/\ last'.svcErr = ErrNotFound
                     /\ ~last'.success
                     /\ users' = users
                     /\ nextID' = nextID))]_vars

\* the Delete of an id that was assigned and is no longer stored
C8_Witness ==
    /\ last.op = "DeleteUser"
    /\ last.svcErr = ErrNotFound
    /\ last.id \in 1..(nextID - 1)
    /\ DOMAIN users # {}

\* C9: an Update of an id that is not stored returns the not-found error
\* (the repository not being in failure mode), creates no record and leaves
\* the stored records and the id counter as they were.
C9_UpdateOfMissingId ==
    [][(/\ Answered
        /\ last'.op \in UpdateOps
        /\ last'.calls = 1
        /\ last'.id \notin DOMAIN users
        /\ ~shouldFail)
       => (/\ last'.svcErr = ErrNotFound
           /\ ~last'.success
           /\ users' = users
           /\ nextID' = nextID)]_vars

\* an update of a missing id while another record is stored
C9_Witness ==
    /\ last.op \in UpdateOps
    /\ last.svcErr = ErrNotFound
    /\ last.id \notin DOMAIN users
    /\ DOMAIN users # {}

\* C10: a List changes nothing in the store, and a successful List returns
\* the same set of records (id, name, dob; the order is free) as the
\* successful List before it when no create, update or delete succeeded in
\* between.
C10_ListIsRepeatable ==
    [][(Answered /\ last'.op = "ListUsers")
       => (/\ users' = users
           /\ nextID' = nextID
           /\ (last'.success /\ listed # <<>>)
                 => {Record(last'.resp[i]) : i \in DOMAIN last'.resp}
                        = {listed[1][i] : i \in DOMAIN listed[1]})]_vars

\* two records listed a second time, in another order than the first time
C10_Witness ==
    /\ last.op = "ListUsers"
    /\ last.success
    /\ Len(last.resp) = 2
    /\ listed # <<>>
    /\ Len(listed[1]) = 2
    /\ Record(last.resp[1]) = listed[1][2]
    /\ Record(last.resp[2]) = listed[1][1]
    /\ last.resp[1].ID # last.resp[2].ID

\* C11: a successful List returns one response for each stored record and
\* no other, with the record's id, name and dob and the age calculateAge
\* gives at the time of the List; the sequence returned is never nil, so an
\* empty store gives an empty sequence.
C11_ListMapsEveryRecord ==
    [][(Answered /\ last'.op = "ListUsers" /\ last'.success)
       => (/\ ~last'.isNil
           /\ Len(last'.resp) = Cardinality(DOMAIN users)
           /\ \A k \in DOMAIN users :
                  \E i \in DOMAIN last'.resp :
                      /\ last'.resp[i] = [ID   |-> k,
                                          Name |-> users[k].Name,
                                          DOB  |-> users[k].Dob,
                                          Age  |-> calculateAge(users[k].Dob, now, loc)]
                      /\ users[k].ID = k
                      /\ \A j \in DOMAIN last'.resp :
                             last'.resp[j].ID = k => j = i)]_vars

\* a List of a store emptied by a delete: an empty sequence that is not nil
C11_Witness ==
    /\ last.op = "ListUsers"
    /\ last.success
    /\ last.resp = <<>>
    /\ ~last.isNil
    /\ users = <<>>
    /\ nextID > 1

\* C12: the first successful create returns id 1, and every successful
\* create returns an id greater than all ids returned by the creates before
\* it, whether or not their records are still stored: no id is given twice.
C12_IdsOnlyGrow ==
    /\ assigned # <<>> => assigned[1] = 1
    /\ \A i, j \in DOMAIN assigned : i < j => assigned[i] < assigned[j]
    /\ \A k \in DOMAIN users : \E i \in DOMAIN assigned : assigned[i] = k

\* the second create, made after the first record was deleted
C12_Witness ==
    /\ last.op \in CreateOps
    /\ last.success
    /\ Len(assigned) = 2
    /\ last.resp[1].ID = assigned[2]
    /\ assigned[1] \notin DOMAIN users

\* the operations that are HTTP endpoints
HttpOps == {"ListUsers", "GetUser", "CreateUser", "UpdateUser", "DeleteUser"}

\* C13 as stated: a Get, Update or Delete that reaches a working repository
\* with an id that is not stored is answered with HTTP 404.
C13_MissingIdGets404 ==
    [][(/\ Answered
        /\ last'.op \in {"GetUser", "UpdateUser", "DeleteUser"}
        /\ last'.calls = 1
        /\ last'.id \notin DOMAIN users
        /\ ~shouldFail)
       => last'.status = 404]_vars

\* C14 as stated: a request of any endpoint for which the repository
\* returns the database error is answered with HTTP 500 and an error
\* message.
C14_DatabaseErrorGets500 ==
    [][(/\ Answered
        /\ last'.op \in HttpOps
        /\ last'.calls = 1
        /\ last'.svcErr = ErrMock)
       => (/\ last'.status = 500
           /\ last'.error # Nil
           /\ last'.error # "")]_vars

\* the message for the rule a name breaks, "" when it breaks none
NameViolation(name) ==
    IF Len(name) = 0 THEN "Name is required"
    ELSE IF Len(name) > 255 THEN "Name must be at most 255 characters"
    ELSE ""

\* the message for the first rule a dob breaks at instant t, "" when it
\* breaks none
DobViolation(dob, t) ==
    IF Len(dob) = 0 THEN "DOB is required"
    ELSE IF ~ParseDate(dob).ok THEN "DOB must be in YYYY-MM-DD format"
    ELSE IF ParseDate(dob).t >= t THEN FutureMessage
    ELSE ""

\* C15: a request that breaks a rule on the name and a rule on the dob is
\* rejected with one error whose text is the name's message, "; ", and the
\* dob's message, in this order; a request that breaks one field's rule gets
\* that message alone, and one that breaks no rule gets no validation error
\* and goes on to the service.
C15_MessagesInFieldOrder ==
    [][(Answered /\ Validated(last'))
       => LET n == NameViolation(last'.req.Name)
              d == DobViolation(last'.req.DOB, now)
          IN  /\ (n # "" /\ d # "")
                    => (~last'.success /\ last'.calls = 0
                        /\ last'.error = n \o "; " \o d)
              /\ (n # "" /\ d = "")
                    => (~last'.success /\ last'.calls = 0 /\ last'.error = n)
              /\ (n = "" /\ d # "")
                    => (~last'.success /\ last'.calls = 0 /\ last'.error = d)
              /\ (n = "" /\ d = "")
                    => (last'.calls = 1 /\ ValidateStruct(last'.req, now) = Nil)]_vars

\* a name of 256 characters with tomorrow's date: one rule broken on each
\* field
C15_Witness ==
    /\ last.op \in CreateOps \cup UpdateOps
    /\ Len(last.req.Name) = 256
    /\ last.req.DOB = DobNext
    /\ last.error = "Name must be at most 255 characters; DOB cannot be in the future"

\* C16 as stated: a dob that is not empty and is no YYYY-MM-DD date gets
\* the format message followed by the future-date message.
C16_BothDobMessages ==
    [][(/\ Answered
        /\ Validated(last')
        /\ Len(last'.req.DOB) > 0
        /\ ~ParseDate(last'.req.DOB).ok)
       => LET both == "DOB must be in YYYY-MM-DD format; " \o FutureMessage
              n    == NameViolation(last'.req.Name)
          IN  last'.error = (IF n = "" THEN both ELSE n \o "; " \o both)]_vars

\* the error the repository returns for a call of op on id in this state;
\* the database error test puts it into failure mode for its call
RepositoryError(op, id) ==
    IF shouldFail \/ op = "RunDatabaseErrorTest" THEN ErrMock
    ELSE IF op \in {"GetUser", "DeleteUser"} \cup UpdateOps /\ id \notin DOMAIN users
    THEN ErrNotFound
    ELSE Nil

\* C17: for every operation that calls the repository, the error the
\* service returns is the error the repository returned; with an error the
\* caller reports a failure (the database error test, which waits for the
\* error, a success) and gets no record, and with a nil error a Get, Create
\* or Update returns a record that is not the zero response.
C17_ServicePassesErrorsOn ==
    [][(Answered /\ last'.calls = 1)
       => (/\ last'.svcErr = RepositoryError(last'.op, last'.id)
           /\ last'.svcErr # Nil
                 => (/\ last'.success = (last'.op = "RunDatabaseErrorTest")
                     /\ last'.resp = <<>>
                     /\ last'.error # Nil
                     /\ last'.op \in {"RunCreateUserTest", "RunUpdateUserTest",
                                       "RunDatabaseErrorTest"}
                            => last'.error = last'.svcErr)
           /\ (last'.svcErr = Nil /\ last'.op \notin {"ListUsers", "DeleteUser"})
                 => (/\ Len(last'.resp) = 1
                     /\ last'.resp[1] # ZeroResponse
                     /\ last'.resp[1].ID \in DOMAIN users'))]_vars

\* a Get of a stored record while the repository fails
C17_Witness ==
    /\ last.op = "GetUser"
    /\ last.svcErr = ErrMock
    /\ last.id \in DOMAIN users
    /\ shouldFail
    /\ ~last.success

\* C18: the stored record has no age, and a Get does not write the store;
\* the age a Get returns follows the clock: when Gets of one id follow one
\* another (nothing written in between, time going by), the age returned is
\* the age of the first of them plus one for each anniversary of the dob
\* (leap-day births: March 1 in common years) that the local date reached
\* after the first Get, up to and including the day of this Get.
C18_AgeFollowsTheClock ==
    [][(Answered /\ last'.op = "GetUser" /\ last'.success)
       => (/\ users' = users
           /\ DOMAIN users[last'.id] = {"ID", "Name", "Dob"}
           /\ (seen # <<>> /\ seen[1].id = last'.id)
                 => LET birth   == Civil(users[last'.id].Dob, 0)
                        before  == (seen[1].at + loc) \div 24
                        current == (now + loc) \div 24
                        passed  == {y \in birth.year..Civil(now, loc).year :
                                       /\ before < AnniversaryDay(birth, y)
                                       /\ AnniversaryDay(birth, y) <= current}
                    IN  last'.resp[1].Age = seen[1].age + Cardinality(passed))]_vars

\* a Get that returns one year more than an earlier Get of the same record
C18_Witness ==
    /\ last.op = "GetUser"
    /\ last.success
    /\ seen # <<>>
    /\ seen[1].id = last.id
    /\ seen[1].at < last.at
    /\ seen[1].age >= 0
    /\ last.resp[1].Age = seen[1].age + 1
    /\ last.id \in DOMAIN sub

\* no call is under way
Quiescent == mu = NewRWMutex /\ \A p \in Procs : gor[p].pc = "idle"

\* the successful CreateUser calls made so far: <<goroutine, number of the call>>
CreatesDone ==
    {c \in Procs \X (1..MaxCalls) :
        /\ c[2] \in DOMAIN gor[c[1]].rets
        /\ gor[c[1]].rets[c[2]].call.method = "CreateUser"
        /\ gor[c[1]].rets[c[2]].ret.err = Nil}

\* a list of records as a map from their ids
ByID(list) ==
    [k \in {list[i].ID : i \in DOMAIN list} |->
        CHOOSE u \in {list[i] : i \in DOMAIN list} : u.ID = k]

\* call c made alone on repository m: the repository after it and what it
\* returns
Alone(m, c) ==
    CASE c.method = "CreateUser" ->
            LET r == RepoCreateUser(m, [Name |-> c.name, Dob |-> c.dob])
            IN  [m |-> r.m, ret |-> [NoRet EXCEPT !.user = r.user, !.err = r.err]]
      [] c.method = "UpdateUser" ->
            LET r == RepoUpdateUser(m, [ID |-> c.id, Name |-> c.name, Dob |-> c.dob])
            IN  [m |-> r.m, ret |-> [NoRet EXCEPT !.user = r.user, !.err = r.err]]
      [] c.method = "DeleteUser" ->
            LET r == RepoDeleteUser(m, c.id)
            IN  [m |-> r.m, ret |-> [NoRet EXCEPT !.err = r.err]]
      [] c.method = "GetUser" ->
            LET r == RepoGetUser(m, c.id)
            IN  [m |-> r.m, ret |-> [NoRet EXCEPT !.user = r.user, !.err = r.err]]
      [] c.method = "ListUsers" ->
            LET r == RepoListUsers(m, CHOOSE o \in Orders(m.users) : TRUE)
            IN  [m |-> r.m, ret |-> [NoRet EXCEPT !.users = ByID(r.users), !.err = r.err]]
      [] c.method = "SetShouldFail" ->
            [m |-> RepoSetShouldFail(m, c.fail), ret |-> NoRet]

RECURSIVE CallsMade(_)
CallsMade(S) ==
    IF S = {} THEN 0
    ELSE LET p == CHOOSE q \in S : TRUE
         IN  Len(gor[p].rets) + CallsMade(S \ {p})

\* the orders in which the calls made so far can be put one after the
\* other, each goroutine's calls in the order it made them: order[i] is
\* the goroutine whose next call comes i-th
SequentialOrders ==
    {order \in [1..CallsMade(Procs) -> Procs] :
        \A p \in Procs :
            Cardinality({i \in DOMAIN order : order[i] = p}) = Len(gor[p].rets)}

\* the calls made one after the other in this order, starting from m,
\* return what they returned and leave the repository as it is now
RECURSIVE Replays(_, _, _)
Replays(m, order, next) ==
    IF order = <<>>
    THEN m = [users |-> users, nextID |-> nextID, shouldFail |-> shouldFail]
    ELSE LET p == Head(order)
             e == gor[p].rets[next[p]]
             r == Alone(m, e.call)
         IN  /\ r.ret = e.ret
             /\ Replays(r.m, Tail(order), [next EXCEPT ![p] = @ + 1])

\* C19: whatever the interleaving of the goroutines' statements: the
\* successful CreateUser calls return pairwise distinct ids; whenever no
\* write is under way every stored record has its key as id and a name and
\* dob that one call wrote together (no mix of two calls); and when all
\* calls have returned there is an order of them, one after the other, in
\* which they return the same values and leave the same users, nextID and
\* shouldFail.
C19_ConcurrentCallsSerialize ==
    /\ \A c, d \in CreatesDone :
           c # d => gor[c[1]].rets[c[2]].ret.user.ID # gor[d[1]].rets[d[2]].ret.user.ID
    /\ mu.writer = 0
          => \A k \in DOMAIN users :
                 /\ users[k].ID = k
                 /\ gor # <<>>
                       => \E p \in Procs :
                              [Name |-> users[k].Name, Dob |-> users[k].Dob] = WritePair(p)
    /\ (gor # <<>> /\ Quiescent)
          => \E order \in SequentialOrders :
                 Replays(NewMockUserRepository, order, [p \in Procs |-> 1])

\* two goroutines each made one call, a CreateUser, at the same time: two
\* ids, two records
C19_Witness ==
    /\ gor # <<>>
    /\ Quiescent
    /\ \E p, q \in Procs :
           /\ p # q
           /\ <<p, 1>> \in CreatesDone
           /\ <<q, 1>> \in CreatesDone
           /\ Len(gor[p].rets) = 1
           /\ Len(gor[q].rets) = 1
           /\ q \in gor[p].rets[1].con
           /\ gor[p].rets[1].ret.user.ID = 2
           /\ gor[q].rets[1].ret.user.ID = 1
           /\ DOMAIN users = {1, 2}

\* the fields of the repository a statement reads and writes
Reads(pc) ==
    CASE pc = "check" -> {"shouldFail"}
      [] pc \in {"g41", "l57", "u92", "u98", "d110"} -> {"users"}
      [] pc \in {"c73", "c78"} -> {"nextID"}
      [] OTHER -> {}

Writes(pc) ==
    CASE pc \in {"c78", "u96", "u97", "d113"} -> {"users"}
      [] pc = "c79" -> {"nextID"}
      [] pc = "s121" -> {"shouldFail"}
      [] OTHER -> {}

\* C20 as stated: in no reachable state is one goroutine about to write a
\* field of the repository while another one is about to read or write
\* that field (which the lock, held around every access, would exclude).
C20_NoConcurrentAccess ==
    \A p, q \in DOMAIN gor :
        p # q => Writes(gor[p].pc) \cap (Reads(gor[q].pc) \cup Writes(gor[q].pc)) = {}

-----------------------------------------------------------------------------
(* cmd/test/main.go: the age calculation unit tests                        *)

\* the four-hour steps the clock of the age tests makes after
\* 2024-02-28T00:00Z, which take it over the leap day to the end of March 1
MaxAgeSteps == 17

\* calculateAge of the test program, evaluated at the instant t in the zone
\* off: the dob shows its date in its own zone
TestCalculateAge(dob, t, off) ==
    LET current    == Civil(t, off)
        born       == Civil(dob.t, dob.loc)
        yearsApart == current.year - born.year
    IN  IF \/ current.month < born.month
           \/ current.month = born.month /\ current.day < born.day
        THEN yearsApart - 1
        ELSE yearsApart

\* the table of RunAgeCalculationTests built at the instant t in the zone off
AgeCalculationTests(t, off) ==
    LET today == Civil(t, off)
    IN  << [Name     |-> "Person born today (age 0)",
            DOB      |-> TimeNow(t, off),
            Expected |-> 0],
           [Name     |-> "Person born 1 year ago",
            DOB      |-> AddDate(TimeNow(t, off), -1, 0, 0),
            Expected |-> 1],
           [Name     |-> "Person born 30 years ago",
            DOB      |-> AddDate(TimeNow(t, off), -30, 0, 0),
            Expected |-> 30],
           [Name     |-> "Person born before birthday this year",
            DOB      |-> TimeDate(today.year - 25, today.month + 1, today.day, 0, 0),
            Expected |-> 24],
           [Name     |-> "Person born after birthday this year",
            DOB      |-> TimeDate(today.year - 25, today.month - 1, today.day, 0, 0),
            Expected |-> 25],
           [Name     |-> "Person born in leap year",
            DOB      |-> TimeDate(1996, 2, 29, 0, 0),
            Expected |-> today.year - 1996],
           [Name     |-> "Classic DOB: 1990-05-15",
            DOB      |-> TimeDate(1990, 5, 15, 0, 0),
            Expected |-> today.year - 1990] >>

\* the instants at which the age tests run
AgeClock == {Date(2024, 2, 28, 0) + 4 * h : h \in 0 .. MaxAgeSteps}

\* the test program started at any of these instants in any zone
AgeInit ==
    /\ users = NewMockUserRepository.users
    /\ nextID = NewMockUserRepository.nextID
    /\ shouldFail = NewMockUserRepository.shouldFail
    /\ now \in AgeClock
    /\ loc \in Locations
    /\ last = Idle
    /\ sub = <<>>
    /\ listed = <<>>
    /\ assigned = <<>>
    /\ seen = <<>>
    /\ mu = [writer |-> 0, readers |-> {}]
    /\ gor = <<>>
    /\ ageTest = NoAgeTest
    /\ removed = <<>>
    /\ served = NoneServed

\* one pass of the loop of RunAgeCalculationTests
RunAgeCalculationTest ==
    \E i \in 1 .. Len(AgeCalculationTests(now, loc)) :
        LET test == AgeCalculationTests(now, loc)[i]
        IN  /\ ageTest' = [Name     |-> test.Name,
                           DOB      |-> test.DOB,
                           Expected |-> test.Expected,
                           age      |-> TestCalculateAge(test.DOB, now, loc)]
            /\ UNCHANGED <<users, nextID, shouldFail, now, loc, last, sub, listed,
                           assigned, seen, mu, gor, removed, served>>

AgeNext == RunAgeCalculationTest

AgeSpec == AgeInit /\ [][AgeNext]_vars

\* the age test of this name has run
AgeTested(name) == ageTest.Name = name

\* the date the age tests ran on
AgeToday == Civil(now, loc)

\* C21: on every current date the test of a person born today finds the age
\* 0 and the test of a person born one year ago, on today minus one year as
\* AddDate(-1, 0, 0) computes it, finds the age 1
C21_BornTodayAndAYearAgo ==
    /\ AgeTested("Person born today (age 0)") => ageTest.age = 0
    /\ AgeTested("Person born 1 year ago") => ageTest.age = 1

\* C30: on every current date calculateAge of 1996-02-29 and of 1990-05-15
\* is the current year minus the year of birth
C30_FixedDobsGiveYearDifference ==
    /\ AgeTested("Person born in leap year") => ageTest.age = AgeToday.year - 1996
    /\ AgeTested("Classic DOB: 1990-05-15") => ageTest.age = AgeToday.year - 1990

-----------------------------------------------------------------------------
\* what validation promises of a name and a dob handed on at the instant t
\* on which the request was answered: as the spec words it, with the dob
\* before the current date, and as validateNotFuture decides it, with the
\* dob before the current instant
PlainDate(dob) == dob % 24 = 0

ValidNameAndEarlierDate(arg, t) ==
    /\ Len(arg.Name) >= NameMin /\ Len(arg.Name) <= NameMax
    /\ PlainDate(arg.Dob)
    /\ UTCDay(arg.Dob) < UTCDay(t)

ValidNameAndEarlierInstant(arg, t) ==
    /\ Len(arg.Name) >= NameMin /\ Len(arg.Name) <= NameMax
    /\ PlainDate(arg.Dob)
    /\ arg.Dob < t

\* the record a successful create or update wrote
Written(out) == IF out.op \in CreateOps THEN out.resp[1].ID ELSE out.id

\* C22 as stated: whatever the service's CreateUser and UpdateUser hand to
\* the repository, from any caller, is a name of 1 to 255 characters and a
\* dob without time of day on a date before the current date, and so is
\* every record they store
C22_ServiceHandsOnOnlyValidated ==
    [][Answered =>
          /\ \A i \in DOMAIN last'.passed :
                ValidNameAndEarlierDate(last'.passed[i], now)
          /\ (last'.op \in CreateOps \cup UpdateOps /\ last'.success) =>
                ValidNameAndEarlierDate(
                    [Name |-> users'[Written(last')].Name,
                     Dob  |-> users'[Written(last')].Dob], now)]_vars

\* C22, amended: what the handlers and the create and update tests of the
\* test runner hand to the service's CreateUser and UpdateUser is a name of
\* 1 to 255 characters and a dob at midnight UTC before the current instant,
\* the record stored is made of exactly these two, and so every record in
\* the store has such a name and such a dob
C22_HandlersHandOnOnlyValidated ==
    /\ [][(Answered /\ last'.op \in CreateOps \cup UpdateOps) =>
             /\ Len(last'.passed) = last'.calls
             /\ \A i \in DOMAIN last'.passed :
                   ValidNameAndEarlierInstant(last'.passed[i], now)
             /\ last'.success =>
                   /\ Len(last'.passed) = 1
                   /\ users'[Written(last')].Name = last'.passed[1].Name
                   /\ users'[Written(last')].Dob = last'.passed[1].Dob]_vars
    /\ [](\A k \in DOMAIN users :
             ValidNameAndEarlierInstant([Name |-> users[k].Name,
                                         Dob  |-> users[k].Dob], now))

\* an update test has just stored a name of 255 characters beside a record
\* whose dob is the current date
C22_Witness ==
    /\ last.op = "RunUpdateUserTest" /\ last.success
    /\ Len(users[last.id].Name) = NameMax
    /\ \E k \in DOMAIN users : UTCDay(users[k].Dob) = UTCDay(now)

-----------------------------------------------------------------------------
\* the dob strings the requests carry
DobInputs == {req.DOB : req \in Requests}

\* the answers of the parse-error branches that follow validation
ParseErrorAnswer(out) ==
    \/ out.op \in {"CreateUser", "UpdateUser"}
       /\ out.error = "invalid date format (Use YYYY-MM-DD)"
    \/ out.op \in {"RunCreateUserTest", "RunUpdateUserTest"}
       /\ out.message = "Date parsing failed"

-----------------------------------------------------------------------------
\* C24: a successful update of id changes the name and the dob of the record
\* stored under id and nothing else: the record was there and keeps its id,
\* every other record, the keys, the number of records and the id counter
\* are as before, and the response carries id with the name and the dob of
\* the request
C24_UpdateChangesNameAndDobOnly ==
    [][(Answered /\ last'.op \in UpdateOps /\ last'.success) =>
          /\ last'.id \in DOMAIN users
          /\ DOMAIN users' = DOMAIN users
          /\ Cardinality(DOMAIN users') = Cardinality(DOMAIN users)
          /\ users[last'.id].ID = last'.id
          /\ users'[last'.id] = [ID   |-> last'.id,
                                 Name |-> last'.req.Name,
                                 Dob  |-> ParseDate(last'.req.DOB).t]
          /\ \A k \in DOMAIN users \ {last'.id} : users'[k] = users[k]
          /\ nextID' = nextID
          /\ shouldFail' = shouldFail
          /\ Len(last'.resp) = 1
          /\ last'.resp[1].ID = last'.id
          /\ last'.resp[1].Name = last'.req.Name
          /\ FormatDate(last'.resp[1].DOB) = last'.req.DOB]_vars

\* the first of two records has been given a name of 255 characters and the
\* second still has the blank name it was created with
C24_Witness ==
    /\ last.op \in UpdateOps /\ last.success
    /\ last.id = 1
    /\ Cardinality(DOMAIN users) = 2
    /\ users[1].Name = NameLong
    /\ users[2].Name = NameBlank
    /\ nextID = 3

-----------------------------------------------------------------------------
\* the handler or the test of outcome out got as far as calling the service
ServiceInvoked(out, t) ==
    CASE out.op = "ListUsers"   -> TRUE
      [] out.op \in {"GetUser", "DeleteUser"} -> ParseInt(out.idp).ok
      [] out.op \in CreateOps \cup UpdateOps ->
             Validated(out) /\ ValidateStruct(out.req, t) = Nil
      [] out.op = "RunDatabaseErrorTest" -> TRUE
      [] OTHER -> FALSE

\* C25: an invocation of a UserService operation makes one call of the
\* repository, whether it succeeds or fails; a create that succeeds adds the
\* one record under the next id, a delete that succeeds removes the one
\* record, and an operation that fails or only reads leaves the records and
\* the id counter as they were
C25_OneRepositoryCallPerInvocation ==
    [][Answered =>
          /\ last'.calls = (IF ServiceInvoked(last', now) THEN 1 ELSE 0)
          /\ (last'.op \in CreateOps /\ last'.svcErr = Nil /\ last'.calls = 1) =>
                /\ DOMAIN users' = DOMAIN users \cup {nextID}
                /\ nextID \notin DOMAIN users
                /\ nextID' = nextID + 1
                /\ \A k \in DOMAIN users : users'[k] = users[k]
          /\ (last'.op = "DeleteUser" /\ last'.svcErr = Nil /\ last'.calls = 1) =>
                /\ DOMAIN users' = DOMAIN users \ {last'.id}
                /\ last'.id \in DOMAIN users
                /\ nextID' = nextID
                /\ \A k \in DOMAIN users' : users'[k] = users[k]
          /\ (\/ last'.svcErr # Nil
              \/ last'.calls = 0
              \/ last'.op \in {"GetUser", "ListUsers", "RunDatabaseErrorTest"}) =>
                /\ users' = users
                /\ nextID' = nextID]_vars

\* a create that the failing repository turned down, with a record in the
\* store from before: one call was made and no record was added
C25_Witness ==
    /\ last.op \in CreateOps
    /\ last.svcErr = ErrMock
    /\ last.calls = 1
    /\ DOMAIN users = {1}
    /\ nextID = 2

-----------------------------------------------------------------------------
\* C26: a call of UserService.DeleteUser emits one log event, which carries
\* the id: the error event "failed to delete user" when the repository's
\* delete fails and the info event "user deleted successfully" when it
\* succeeds; the error the caller gets and the store after the call are
\* those of the repository's delete
C26_DeleteLogsOneEvent ==
    [][(Answered /\ last'.op = "DeleteUser" /\ ParseInt(last'.idp).ok) =>
          /\ Len(last'.log) = 1
          /\ last'.log[1].id = last'.id
          /\ last'.svcErr = RepoDeleteUser(Repo, last'.id).err
          /\ users' = RepoDeleteUser(Repo, last'.id).m.users
          /\ IF RepoDeleteUser(Repo, last'.id).err # Nil
             THEN /\ last'.log[1].level = "error"
                  /\ last'.log[1].msg = "failed to delete user"
                  /\ ~last'.success
             ELSE /\ last'.log[1].level = "info"
                  /\ last'.log[1].msg = "user deleted successfully"
                  /\ last'.success]_vars

\* the delete of an id that is not stored, beside a record that is, has
\* logged its one error event
C26_Witness ==
    /\ last.op = "DeleteUser"
    /\ last.svcErr = ErrNotFound
    /\ Len(last.log) = 1
    /\ last.log[1].level = "error"
    /\ last.log[1].id = 2
    /\ DOMAIN users = {1}

-----------------------------------------------------------------------------
\* the operations that call the repository through the service
ServiceOps ==
    HttpOps \cup {"RunCreateUserTest", "RunUpdateUserTest", "RunDatabaseErrorTest"}

\* C27: in failure mode every operation that reaches the repository gets the
\* mock database error and leaves the records and the id counter as they
\* were, and so does the database error test, which turns failure mode on
\* for its one create; failed creates draw no id: every successful create
\* gets the id after that of the successful create before it, and the first
\* one gets 1
C27_FailureModeChangesNothing ==
    [][(Answered /\ last'.op \in ServiceOps) =>
          /\ ((shouldFail \/ last'.op = "RunDatabaseErrorTest") /\ last'.calls = 1) =>
                /\ last'.svcErr = ErrMock
                /\ last'.resp = <<>>
                /\ users' = users
                /\ nextID' = nextID
          /\ (shouldFail /\ last'.op \in HttpOps \cup {"RunCreateUserTest",
                                                      "RunUpdateUserTest"}) =>
                ~last'.success
          /\ (last'.op \in CreateOps /\ last'.success) =>
                last'.resp[1].ID = (IF assigned = <<>> THEN 1
                                    ELSE assigned[Len(assigned)] + 1)]_vars

\* the create handler has just been refused by the failing repository with
\* one record stored and the id 2 still to come
C27_Witness ==
    /\ shouldFail
    /\ last.op = "CreateUser"
    /\ last.status = 500
    /\ last.svcErr = ErrMock
    /\ DOMAIN users = {1}
    /\ nextID = 2

-----------------------------------------------------------------------------
\* C28: the number of stored users is the number of successful creates less
\* the number of successful deletes, every key of the store is at least 1
\* and below nextID, and every record is stored under its own ID
C28_CountAndKeys ==
    /\ Cardinality(DOMAIN users) = Len(assigned) - Len(removed)
    /\ \A k \in DOMAIN users :
          /\ 1 <= k /\ k < nextID
          /\ users[k].ID = k

\* two creates and the delete of the first record have left the second
C28_Witness ==
    /\ Len(assigned) = 2
    /\ removed = <<1>>
    /\ DOMAIN users = {2}
    /\ nextID = 3

-----------------------------------------------------------------------------
(* cmd/server: the fiber application.  A request passes recover, CORS and  *)
(* ErrorHandler, then RequestLogger when its path lies in the group        *)
(* /api/v1, then the handler its method and path are routed to.  A path is *)
(* the sequence of its segments.  A link of the chain gives the repository *)
(* after it, whether a user handler ran and with what outcome, the status  *)
(* of the response so far, the error it returns and the log entries        *)
(* written.                                                                *)

Methods == {"GET", "POST", "PUT", "DELETE", "OPTIONS"}

UsersPath == <<"api", "v1", "users">>

Paths ==
    {<<"health">>, UsersPath, <<"api", "v1", "status">>, <<"metrics">>}
        \cup {Append(UsersPath, idp) : idp \in IdParams}

\* the bodies sent to the server
ServerRequests == {Request(NameBlank, DobLeap), Request("", DobLeap)}

\* the path lies under the prefix of api := app.Group("/api/v1")
InApiGroup(path) == Len(path) >= 2 /\ path[1] = "api" /\ path[2] = "v1"

\* the routes of SetupRoutes
Route(method, path) ==
    IF path = UsersPath
    THEN CASE method = "GET"  -> "ListUsers"
           [] method = "POST" -> "CreateUser"
           [] OTHER           -> "none"
    ELSE IF Len(path) = 4 /\ SubSeq(path, 1, 3) = UsersPath
    THEN CASE method = "GET"    -> "GetUser"
           [] method = "PUT"    -> "UpdateUser"
           [] method = "DELETE" -> "DeleteUser"
           [] OTHER             -> "none"
    ELSE IF path = <<"health">> /\ method = "GET" THEN "health"
    ELSE "none"

\* a user handler answered: it wrote the status and returned nil
FromHandler(r) ==
    [m |-> r.m, handled |-> TRUE, out |-> r.out, status |-> r.out.status,
     err |-> Nil, entries |-> <<>>]

\* the handler at the end of the chain: a user handler, the health check,
\* or none, when fiber returns its error for a request without a route and
\* the response still has the status it starts with
Endpoint(m, method, path, req, order, t, off) ==
    LET route == Route(method, path)
        plain == [m |-> m, handled |-> FALSE, out |-> Idle, status |-> 200,
                  err |-> Nil, entries |-> <<>>]
    IN  CASE route = "ListUsers"  -> FromHandler(UserHandlerListUsers(m, order, t, off))
          [] route = "GetUser"    -> FromHandler(UserHandlerGetUser(m, path[4], t, off))
          [] route = "CreateUser" -> FromHandler(UserHandlerCreateUser(m, req, t, off))
          [] route = "UpdateUser" ->
                 FromHandler(UserHandlerUpdateUser(m, path[4], req, t, off))
          [] route = "DeleteUser" -> FromHandler(UserHandlerDeleteUser(m, path[4]))
          [] route = "health"     -> plain
          [] OTHER                -> [plain EXCEPT !.err = "Cannot " \o method]

\* err := c.Next(); logger.Info("HTTP Request", ...); return err
RequestLogger(method, path, next) ==
    [next EXCEPT !.entries =
        Append(@, [msg |-> "HTTP Request", method |-> method, path |-> path,
                   status |-> next.status])]

\* err := c.Next(); an error is logged and answered with 500
ErrorHandler(method, path, next) ==
    IF next.err # Nil
    THEN [next EXCEPT !.entries = Append(@, [msg |-> "Request error",
                                             method |-> method, path |-> path,
                                             error |-> next.err]),
                      !.status = 500,
                      !.err = Nil]
    ELSE next

\* an OPTIONS request is answered here and goes no further
CORS(m, method, next) ==
    IF method = "OPTIONS"
    THEN [m |-> m, handled |-> FALSE, out |-> Idle, status |-> 204, err |-> Nil,
          entries |-> <<>>]
    ELSE next

\* the chain as main and SetupRoutes register it, given what the handler at
\* its end does
App(m, method, path, routed) ==
    CORS(m, method,
         ErrorHandler(method, path,
                      IF InApiGroup(path) THEN RequestLogger(method, path, routed)
                      ELSE routed))

\* the server answers one request
Serve ==
    \E method \in Methods, path \in Paths :
        \E req \in (IF method \in {"POST", "PUT"} THEN ServerRequests ELSE {NoRequest}),
           order \in (IF Route(method, path) = "ListUsers" /\ method # "OPTIONS"
                      THEN Orders(users) ELSE {<<>>}) :
            /\ (Route(method, path) = "CreateUser") => nextID <= MaxUsers
            /\ \E routed \in {Endpoint(Repo, method, path, req, order, now, loc)} :
                  \E res \in {App(Repo, method, path, routed)} :
                      /\ served' = [method |-> method, path |-> path,
                                    status |-> res.status, entries |-> res.entries]
                      /\ IF res.handled
                         THEN Recorded([m |-> res.m, out |-> res.out])
                         ELSE UNCHANGED <<users, nextID, shouldFail, now, loc, last,
                                          sub, listed, assigned, seen, mu, gor,
                                          ageTest, removed>>

ServerNext ==
    \/ Serve
    \/ SetShouldFail

ServerSpec == Init /\ [][ServerNext]_vars

\* the "HTTP Request" entries among the log entries es
RequestEntries(es) == {i \in DOMAIN es : es[i].msg = "HTTP Request"}

\* C29: for every request the server receives, whatever its method and its
\* path, exactly one "HTTP Request" entry is logged
C29_EveryRequestLoggedOnce ==
    served # NoneServed => Cardinality(RequestEntries(served.entries)) = 1

=============================================================================
